---- MODULE Spec2Model ----
(***************************************************************************)
(* Credit Insight: the session store (IndexedDB), the file channel that    *)
(* mirrors it (/api/db), the App-level batch rebenchmark and the benchmark *)
(* profile manager, and the analysis of one agreement.                     *)
(*                                                                         *)
(* The specifications share the variables:                               *)
(*   Spec      - services/db.ts against the file channel of vite.config.ts *)
(*   FairSpec  - the same, with weak fairness on every step of the program *)
(*   AppSpec   - App.handleRebenchmarkSessions and MatrixView's caller     *)
(*   ProfSpec  - BenchmarkManager's profile handlers and the settings load  *)
(*   MigSpec   - migrateSessionData, getAllSessions' read, export and       *)
(*               import of services/db.ts applied to stored records        *)
(*   AnSpec    - the analysis handlers and the result mapping of            *)
(*               services/aiService.ts                                     *)
(*   ChanSpec  - handleJsonFileRequest serving the POSTs of two clients     *)
(*   SetSpec   - getSettings / saveSettings and App's load and save effects *)
(*   SaveSpec  - successive handleUpdateSession calls and their saves       *)
(*   UiSpec    - ChatView's handlers, session select and session delete    *)
(*   BatchSpec - a batch rebenchmark running next to those handlers        *)
(*   StaleSpec - the consumers of activeProfileId for every pointer        *)
(***************************************************************************)
EXTENDS Integers, Sequences, FiniteSets, TLC

VARIABLES
  store,        \* IndexedDB object store 'sessions': id -> stored record
  file,         \* content of credit_insight_db.json behind /api/db
  pc,           \* position of the running getAllSessions ("ga") and of the running write ("wr")
  body,         \* per process: the parsed import payload, then the exported JSON of a push
  posts,        \* per process: POSTs issued by the current call
  gets,         \* per process: GETs issued by the current call
  wrOp,         \* the write operation in progress (save / delete / import)
  wrError,      \* TRUE when the write operation rejected to its caller
  push,         \* what became of the POST of the current write: "none", "stored", "failed"
  gaPull,       \* what the pull of the current getAllSessions ran into
  gaResult,     \* the list getAllSessions resolved with
  gaError,      \* TRUE when getAllSessions rejected to its caller
  owed,         \* history: id -> the local write whose push failed and that no later write replaced
  sessions,     \* App state: the session list (React state)
  activeProfileId,   \* App state: the active benchmark profile id
  benchmarkProfiles, \* App state: the list of benchmark profiles
  now,          \* the clock read by new Date() / Date.now()
  rb,           \* the handleRebenchmarkSessions call in flight, or its idle record
  evt,          \* the last UI handler that ran and what it answered
  activeSessionId,   \* App state: the id of the session on screen, NullId for null
  isLoadingDB,  \* App state: TRUE while refreshSessions runs
  refresh,      \* position of the running refreshSessions
  settingsFile, \* content of credit_insight_settings.json behind /api/settings
  chat,         \* ChatView.handleSend calls waiting for sendChatMessage
  saves,        \* saveSession calls started and not yet in the store, in call order
  tabs          \* the clients of the file channel: each one's store and its POST

vars == << store, file, pc, body, posts, gets, wrOp, wrError, push, gaPull,
           gaResult, gaError, owed,
           sessions, activeProfileId, benchmarkProfiles, now, rb, evt,
           activeSessionId, isLoadingDB, refresh, settingsFile, chat, saves, tabs >>

uiVars == << activeSessionId, isLoadingDB, refresh, settingsFile, chat, saves, tabs >>

dbVars == << store, file, pc, body, posts, gets, wrOp, wrError, push, gaPull,
             gaResult, gaError, owed >>

procVars == << pc, body, posts, gets, wrOp, wrError, push, gaPull, gaResult, gaError, owed >>

appVars == << sessions, activeProfileId, benchmarkProfiles, now, rb, evt >>

----------------------------------------------------------------------------
(* Bounds *)

MaxTime == 2        \* timestamps range over 1..MaxTime

MaxBatches == 2     \* rebenchmark batches started in one run of the App

Ids == {1, 2}       \* session ids (Date.now().toString(), compared as keys)

Times == 1..MaxTime

\* activeSessionId === null
NullId == 0

----------------------------------------------------------------------------
(* Values *)

\* A Date object and its JSON form (toISOString), kept apart so that
\* serialisation and new Date(...) are conversions and not the identity.
DateOf(t) == [k |-> "date", t |-> t]

IsoOf(t) == [k |-> "iso", t |-> t]

\* new Date(x) for a Date or an ISO string
NewDate(x) == DateOf(x.t)

\* JSON.stringify of a Date
JsonTime(x) == IsoOf(x.t)

defaultProfileId == "us_large_cap"

\* constants.ts DEFAULT_BENCHMARK_PROFILES; data stands for the term -> value map
DEFAULT_BENCHMARK_PROFILES ==
  << [id |-> "us_large_cap", data |-> "MARKET_BENCHMARK"],
     [id |-> "us_middle_market", data |-> "middle_market"],
     [id |-> "canada_standard", data |-> "canada"] >>

EmptyMap == [k \in {} |-> <<>>]

BrMap(m) == [kind |-> "map", arr |-> <<>>, map |-> m]

BrArray(a) == [kind |-> "array", arr |-> a, map |-> EmptyMap]

BrMissing == [kind |-> "missing", arr |-> <<>>, map |-> EmptyMap]

ChatList(msgs) == [kind |-> "list", msgs |-> msgs]

ChatMissing == [kind |-> "missing", msgs |-> <<>>]

\* benchmark result lists and extraction result lists used as sample data
ResGreen == << [term |-> "Leverage", extractedValue |-> "4.0x", variance |-> "Green"] >>

ResRed == << [term |-> "Leverage", extractedValue |-> "4.0x", variance |-> "Red"] >>

ExtractionSample == << [term |-> "Leverage", value |-> "4.0x"] >>

ChatSample == << [text |-> "q", timestamp |-> DateOf(1)] >>

\* a session in the current shape, as the App builds and saves it
Session(id, t, brMap, msgs) ==
  [ id |-> id, lastModified |-> DateOf(t), extractionResults |-> ExtractionSample,
    benchmarkResults |-> BrMap(brMap), chatHistory |-> ChatList(msgs) ]

\* a session as the pre-multi-profile version stored it: a flat result list
LegacySession(id, t) ==
  [ id |-> id, lastModified |-> DateOf(t), extractionResults |-> ExtractionSample,
    benchmarkResults |-> BrArray(ResGreen), chatHistory |-> ChatList(<<>>) ]

----------------------------------------------------------------------------
(* services/db.ts: pure parts *)

\* migrateSessionData that wraps whatever it finds under the default profile
migrateSessionDataRewrap(session) ==
  [ session EXCEPT
      !.lastModified = NewDate(session.lastModified),
      !.chatHistory = ChatList([ i \in DOMAIN session.chatHistory.msgs |->
                         [ session.chatHistory.msgs[i] EXCEPT
                             !.timestamp = NewDate(session.chatHistory.msgs[i].timestamp) ] ]),
      !.benchmarkResults =
          IF session.benchmarkResults.kind = "missing" THEN BrMap(EmptyMap)
          ELSE BrMap([k \in {defaultProfileId} |-> session.benchmarkResults.arr]) ]

\* migrateSessionData that defaults a flat list to the empty map too
migrateSessionDataDropLegacy(session) ==
  [ session EXCEPT
      !.lastModified = NewDate(session.lastModified),
      !.chatHistory = ChatList([ i \in DOMAIN session.chatHistory.msgs |->
                         [ session.chatHistory.msgs[i] EXCEPT
                             !.timestamp = NewDate(session.chatHistory.msgs[i].timestamp) ] ]),
      !.benchmarkResults =
          IF session.benchmarkResults.kind = "map" THEN session.benchmarkResults
          ELSE BrMap(EmptyMap) ]

\* migrateSessionData
migrateSessionData(session) ==
  LET migratedBenchmarks ==
        IF session.benchmarkResults.kind = "array"
          THEN BrMap([k \in {defaultProfileId} |-> session.benchmarkResults.arr])
        ELSE IF session.benchmarkResults.kind = "missing"
          THEN BrMap(EmptyMap)
        ELSE session.benchmarkResults
  IN [ session EXCEPT
         !.lastModified = NewDate(session.lastModified),
         !.chatHistory = ChatList([ i \in DOMAIN session.chatHistory.msgs |->
                            [ session.chatHistory.msgs[i] EXCEPT
                                !.timestamp = NewDate(session.chatHistory.msgs[i].timestamp) ] ]),
         !.benchmarkResults = migratedBenchmarks ]

\* a serialisation that leaves the conversation out of the backup
ToJsonNoChat(session) ==
  [ session EXCEPT
      !.lastModified = JsonTime(session.lastModified),
      !.chatHistory = ChatMissing ]

\* JSON.stringify of one session followed by JSON.parse: Dates become ISO strings
ToJson(session) ==
  [ session EXCEPT
      !.lastModified = JsonTime(session.lastModified),
      !.chatHistory = [ session.chatHistory EXCEPT
                          !.msgs = [ i \in DOMAIN session.chatHistory.msgs |->
                                      [ session.chatHistory.msgs[i] EXCEPT
                                          !.timestamp = JsonTime(session.chatHistory.msgs[i].timestamp) ] ] ] ]

\* the ids of a store in key order, as store.getAll() walks them
RECURSIVE KeyOrder(_)
KeyOrder(S) ==
  IF S = {} THEN <<>>
  ELSE LET m == CHOOSE x \in S : \A y \in S : x <= y
       IN <<m>> \o KeyOrder(S \ {m})

\* store.getAll()
StoreGetAll(st) ==
  LET ks == KeyOrder(DOMAIN st) IN [ i \in 1..Len(ks) |-> st[ks[i]] ]

\* store.put(session): upsert by id, the whole record
StorePut(st, session) ==
  [ i \in (DOMAIN st) \cup {session.id} |-> IF i = session.id THEN session ELSE st[i] ]

\* store.delete(id)
StoreDelete(st, id) ==
  [ i \in (DOMAIN st) \ {id} |-> st[i] ]

\* the sort with the comparator turned round: a.lastModified - b.lastModified
RECURSIVE InsertAsc(_, _)
InsertAsc(sorted, x) ==
  IF sorted = <<>> THEN <<x>>
  ELSE IF Head(sorted).lastModified.t <= x.lastModified.t
    THEN <<Head(sorted)>> \o InsertAsc(Tail(sorted), x)
  ELSE <<x>> \o sorted

\* Array.prototype.sort with the comparator b.lastModified - a.lastModified (stable)
RECURSIVE InsertDesc(_, _)
InsertDesc(sorted, x) ==
  IF sorted = <<>> THEN <<x>>
  ELSE IF Head(sorted).lastModified.t >= x.lastModified.t
    THEN <<Head(sorted)>> \o InsertDesc(Tail(sorted), x)
  ELSE <<x>> \o sorted

RECURSIVE SortDesc(_)
SortDesc(list) ==
  IF list = <<>> THEN <<>>
  ELSE InsertDesc(SortDesc(SubSeq(list, 1, Len(list) - 1)), list[Len(list)])

\* the list getAllSessions resolves with, read from the store
GetAllRead(st) ==
  LET raw == StoreGetAll(st)
  IN SortDesc([ i \in 1..Len(raw) |-> migrateSessionData(raw[i]) ])

\* exportDatabase: JSON.stringify(request.result.map(migrateSessionData))
exportDatabase(st) ==
  LET raw == StoreGetAll(st)
  IN [ i \in 1..Len(raw) |-> ToJson(migrateSessionData(raw[i])) ]

\* a merge that keeps the local record when the id is already stored
RECURSIVE ImportPutKeepLocal(_, _)
ImportPutKeepLocal(st, rawSessions) ==
  IF rawSessions = <<>> THEN st
  ELSE ImportPutKeepLocal(IF Head(rawSessions).id \in DOMAIN st THEN st
                          ELSE StorePut(st, migrateSessionData(Head(rawSessions))),
                          Tail(rawSessions))

\* the forEach of importDatabase: migrate and put each record, in blob order
RECURSIVE ImportPut(_, _)
ImportPut(st, rawSessions) ==
  IF rawSessions = <<>> THEN st
  ELSE ImportPut(StorePut(st, migrateSessionData(Head(rawSessions))), Tail(rawSessions))

----------------------------------------------------------------------------
(* The file channel, vite.config.ts *)

FileNone == [kind |-> "nofile", recs |-> <<>>]

FileArray(recs) == [kind |-> "array", recs |-> recs]

\* a file whose text is JSON but not an array
FileNotArray == [kind |-> "notarray", recs |-> <<>>]

\* a file whose text is not JSON
FileGarbage == [kind |-> "garbage", recs |-> <<>>]

\* handleJsonFileRequest, GET: the file text, or 'null' when there is no file
HandleGet(f) == IF f.kind = "nofile" THEN FileNotArray ELSE f

\* a POST handler that writes the body before it looks at it
HandlePostNoValidate(f, text) == text

\* a POST handler that adds the records of the body to those of the file
HandlePostMerge(f, text) ==
  IF text.kind = "garbage" THEN f
  ELSE IF f.kind = "array" /\ text.kind = "array"
    THEN [kind |-> "array", recs |-> f.recs \o text.recs]
  ELSE text

\* handleJsonFileRequest, POST: JSON.parse(body) must succeed, then writeFileSync
HandlePost(f, text) == IF text.kind = "garbage" THEN f ELSE text

HandlePostOk(text) == text.kind # "garbage"

----------------------------------------------------------------------------
(* services/db.ts: the asynchronous operations, one step per await *)

Procs == {"ga", "wr"}

EmptyStore == [i \in {} |-> LegacySession(1, 1)]

SampleMap == [k \in {"us_middle_market"} |-> ResRed]

\* what the App hands to saveSession
SaveInputs == { Session(i, t, SampleMap, ChatSample) : i \in Ids, t \in Times }

\* a backup written by the pre-multi-profile version: flat list, ISO dates
LegacyJson(id, t) ==
  [ id |-> id, lastModified |-> IsoOf(t), extractionResults |-> ExtractionSample,
    benchmarkResults |-> BrArray(ResGreen), chatHistory |-> ChatMissing ]

\* the texts a user can pick in the import dialog
ImportTexts ==
  { FileGarbage, FileNotArray, FileArray(<< LegacyJson(2, 1) >>),
    FileArray(<< ToJson(Session(1, MaxTime, EmptyMap, <<>>)), LegacyJson(2, 1) >>) }

InitStores ==
  { EmptyStore,
    [i \in {1} |-> LegacySession(1, 1)],
    [i \in Ids |-> Session(i, 1, SampleMap, <<>>)] }

InitFiles ==
  { FileNone, FileGarbage, FileArray(<<>>),
    FileArray(exportDatabase([i \in {1} |-> Session(1, 1, EmptyMap, <<>>)])) }

NoOp == [kind |-> "none"]

SaveOp(session) == [kind |-> "save", session |-> session]

DeleteOp(id) == [kind |-> "delete", id |-> id]

ImportOp(text) == [kind |-> "import", text |-> text]

WriteOps ==
  { SaveOp(s) : s \in SaveInputs } \cup { DeleteOp(i) : i \in Ids }
    \cup { ImportOp(t) : t \in ImportTexts }

Nothing == [kind |-> "none"]

OwedDeleted == [kind |-> "deleted"]

OwedSaved(session) == [kind |-> "saved", session |-> session]

\* the second argument of importDatabase: false from syncFromServer,
\* the default (true) from the dashboard's import
SyncFromServerArgDefault == TRUE

SyncFromServerArg == FALSE

ImportDefaultArg == TRUE

shouldSyncToServer(p) == IF p = "ga" THEN SyncFromServerArg ELSE ImportDefaultArg

\* where a process continues once syncToServer has returned (it never throws)
AfterSync(p) == IF p = "wr" THEN "done" ELSE "read"

\* the ids a write operation touches
RECURSIVE BlobIds(_)
BlobIds(recs) == IF recs = <<>> THEN {} ELSE {Head(recs).id} \cup BlobIds(Tail(recs))

InFlight(p) == pc[p] # "idle"

\* The UI issues the store operations one at a time (the loading screen covers
\* getAllSessions); a call that waits on a request that never completes does
\* not keep the UI from issuing the next one.
Quiet(p) == pc[p] \in {"idle", "getHung", "postHung"}

Settled(p) == pc[p] \in {"done", "failed"}

DbInit ==
  /\ store \in InitStores
  /\ file \in InitFiles

\* the App after its load, with no session on screen, no chat call and no
\* save pending; no settings file and no other client of the file channel
UiIdle ==
  /\ activeSessionId = NullId
  /\ isLoadingDB = FALSE
  /\ refresh = "idle"
  /\ settingsFile = [kind |-> "none"]
  /\ chat = <<>>
  /\ saves = <<>>
  /\ tabs = <<>>

\* no store operation is running
ProcInit ==
  /\ pc = [p \in Procs |-> "idle"]
  /\ body = [p \in Procs |-> <<>>]
  /\ posts = [p \in Procs |-> 0]
  /\ gets = [p \in Procs |-> 0]
  /\ wrOp = NoOp
  /\ wrError = FALSE
  /\ push = "none"
  /\ gaPull = "none"
  /\ gaResult = <<>>
  /\ gaError = FALSE
  /\ owed = [i \in Ids |-> Nothing]

\* syncFromServer without its catch: what importDatabase throws reaches the caller
SyncFromServerBranchNoCatch(outcome, text) ==
  IF outcome = "throw" THEN [pc |-> "read", pull |-> "threw"]
  ELSE IF outcome = "nonok" THEN [pc |-> "read", pull |-> "nonok"]
  ELSE IF text.kind = "array" /\ text.recs = <<>> THEN [pc |-> "read", pull |-> "empty"]
  ELSE IF text.kind = "garbage" THEN [pc |-> "failed", pull |-> "badjson"]
  ELSE IF text.kind = "notarray" THEN [pc |-> "failed", pull |-> "notarray"]
  ELSE [pc |-> "import", pull |-> "import"]

\* syncFromServer after the response: which branch the body takes.
\* "import" hands the parsed array to importDatabase; every other branch
\* returns or is caught, and getAllSessions goes on to read the store.
SyncFromServerBranch(outcome, text) ==
  IF outcome = "throw" THEN [pc |-> "read", pull |-> "threw"]
  ELSE IF outcome = "nonok" THEN [pc |-> "read", pull |-> "nonok"]
  ELSE IF text.kind = "array" /\ text.recs = <<>> THEN [pc |-> "read", pull |-> "empty"]
  ELSE IF text.kind = "garbage" THEN [pc |-> "read", pull |-> "badjson"]
  ELSE IF text.kind = "notarray" THEN [pc |-> "read", pull |-> "notarray"]
  ELSE [pc |-> "import", pull |-> "import"]

\* getAllSessions is called: syncFromServer issues fetch(API_URL)
GetAllStart(hang) ==
  /\ ~InFlight("ga")
  /\ Quiet("wr")
  /\ pc' = [pc EXCEPT !["ga"] = IF hang THEN "getHung" ELSE "get"]
  /\ gets' = [gets EXCEPT !["ga"] = 1]
  /\ posts' = [posts EXCEPT !["ga"] = 0]
  /\ gaPull' = "pending"
  /\ gaResult' = <<>>
  /\ gaError' = FALSE
  /\ UNCHANGED << store, file, body, wrOp, wrError, push, owed >>
  /\ UNCHANGED appVars
  /\ UNCHANGED uiVars

\* the GET is answered (or fails): syncFromServer up to importDatabase's transaction
GetResponse(outcome) ==
  /\ pc["ga"] = "get"
  /\ LET b == SyncFromServerBranch(outcome, HandleGet(file))
     IN /\ pc' = [pc EXCEPT !["ga"] = b.pc]
        /\ gaPull' = b.pull
        /\ gaError' = (b.pc = "failed")
        /\ body' = [body EXCEPT !["ga"] = IF b.pc = "import" THEN HandleGet(file).recs ELSE <<>>]
  /\ UNCHANGED << store, file, posts, gets, wrOp, wrError, push, gaResult, owed >>
  /\ UNCHANGED appVars
  /\ UNCHANGED uiVars

\* importDatabase: the readwrite transaction completes
ImportTransaction(p) ==
  /\ pc[p] = "import"
  /\ store' = ImportPut(store, body[p])
  /\ pc' = [pc EXCEPT ![p] = IF shouldSyncToServer(p) THEN "export" ELSE AfterSync(p)]
  /\ owed' = [i \in Ids |-> IF p = "wr" /\ i \in BlobIds(body[p]) THEN Nothing ELSE owed[i]]
  /\ UNCHANGED << file, body, posts, gets, wrOp, wrError, push, gaPull, gaResult, gaError >>
  /\ UNCHANGED appVars
  /\ UNCHANGED uiVars

\* syncToServer: exportDatabase resolved, fetch(API_URL, POST) is issued
SyncToServerExport(p, hang) ==
  /\ pc[p] = "export"
  /\ body' = [body EXCEPT ![p] = exportDatabase(store)]
  /\ posts' = [posts EXCEPT ![p] = @ + 1]
  /\ pc' = [pc EXCEPT ![p] = IF hang THEN "postHung" ELSE "post"]
  /\ UNCHANGED << store, file, gets, wrOp, wrError, push, gaPull, gaResult, gaError,
                  owed >>
  /\ UNCHANGED appVars
  /\ UNCHANGED uiVars

\* the local write a finished operation made, as owed to later reads
OwedAfter(op, ok, o) ==
  [ i \in Ids |->
      IF ok THEN Nothing
      ELSE IF op.kind = "save" /\ op.session.id = i THEN OwedSaved(op.session)
      ELSE IF op.kind = "delete" /\ op.id = i THEN OwedDeleted
      ELSE o[i] ]

\* syncToServer without its catch: a rejected fetch rejects the operation
SyncToServerNoCatch(p, outcome) == IF outcome = "throw" THEN "failed" ELSE AfterSync(p)

\* syncToServer's try/catch: whatever the POST did, the caller goes on
SyncToServerCatch(p, outcome) == AfterSync(p)

\* the POST is answered (or fails); syncToServer swallows every failure
PostResponse(p, outcome) ==
  /\ pc[p] = "post"
  /\ LET ok == outcome = "served" /\ HandlePostOk(FileArray(body[p]))
         next == SyncToServerCatch(p, outcome)
     IN /\ file' = IF outcome = "served" THEN HandlePost(file, FileArray(body[p])) ELSE file
        /\ push' = IF p = "wr" THEN (IF ok THEN "stored" ELSE "failed") ELSE push
        /\ owed' = IF p = "wr" THEN OwedAfter(wrOp, ok, owed) ELSE owed
        /\ pc' = [pc EXCEPT ![p] = next]
        /\ wrError' = IF p = "wr" THEN next = "failed" ELSE wrError
        /\ gaError' = IF p = "ga" THEN next = "failed" ELSE gaError
  /\ UNCHANGED << store, body, posts, gets, wrOp, gaPull, gaResult >>
  /\ UNCHANGED appVars
  /\ UNCHANGED uiVars

\* getAllSessions: the readonly transaction's getAll succeeds
GetAllResolve ==
  /\ pc["ga"] = "read"
  /\ gaResult' = GetAllRead(store)
  /\ pc' = [pc EXCEPT !["ga"] = "done"]
  /\ UNCHANGED << store, file, body, posts, gets, wrOp, wrError, push, gaPull, gaError,
                  owed >>
  /\ UNCHANGED appVars
  /\ UNCHANGED uiVars

\* importDatabase that takes any JSON value for a (possibly empty) backup
ImportParseAnyJson(text) ==
  IF text.kind \in {"array", "notarray"} THEN "import" ELSE "failed"

\* importDatabase before its transaction: JSON.parse and the Array.isArray check
ImportParse(text) ==
  IF text.kind = "array" THEN "import" ELSE "failed"

\* saveSession / deleteSessionById / importDatabase is called by the UI
WriteStart(op) ==
  /\ ~InFlight("wr")
  /\ Quiet("ga")
  /\ op.kind = "delete" => op.id \in DOMAIN store   \* the UI deletes a session it lists
  /\ wrOp' = op
  /\ push' = "none"
  /\ posts' = [posts EXCEPT !["wr"] = 0]
  /\ LET next == IF op.kind = "import" THEN ImportParse(op.text) ELSE "local"
     IN /\ pc' = [pc EXCEPT !["wr"] = next]
        /\ wrError' = (next = "failed")
        /\ body' = [body EXCEPT !["wr"] = IF next = "import" THEN op.text.recs ELSE <<>>]
  /\ UNCHANGED << store, file, gets, gaPull, gaResult, gaError, owed >>
  /\ UNCHANGED appVars
  /\ UNCHANGED uiVars

\* the store.put / store.delete request of saveSession / deleteSessionById succeeds
LocalWrite(st, op) ==
  IF op.kind = "save" THEN StorePut(st, op.session) ELSE StoreDelete(st, op.id)

\* a delete that returns without mirroring the store
AfterLocalWriteNoSyncOnDelete(op) == IF op.kind = "delete" THEN "done" ELSE "export"

\* after the local request: await syncToServer()
AfterLocalWrite(op) == "export"

WriteLocal ==
  /\ pc["wr"] = "local"
  /\ store' = LocalWrite(store, wrOp)
  /\ pc' = [pc EXCEPT !["wr"] = AfterLocalWrite(wrOp)]
  /\ LET id == IF wrOp.kind = "save" THEN wrOp.session.id ELSE wrOp.id
     IN owed' = [owed EXCEPT ![id] = Nothing]
  /\ UNCHANGED << file, body, posts, gets, wrOp, wrError, push, gaPull, gaResult, gaError >>
  /\ UNCHANGED appVars
  /\ UNCHANGED uiVars

\* the promise of getAllSessions settles and its caller takes the result
GetAllReturn ==
  /\ Settled("ga")
  /\ pc' = [pc EXCEPT !["ga"] = "idle"]
  /\ gets' = [gets EXCEPT !["ga"] = 0]
  /\ gaPull' = "none"
  /\ gaResult' = <<>>
  /\ gaError' = FALSE
  /\ UNCHANGED << store, file, body, posts, wrOp, wrError, push, owed >>
  /\ UNCHANGED appVars
  /\ UNCHANGED uiVars

\* the promise of the write operation settles
WriteReturn ==
  /\ Settled("wr")
  /\ pc' = [pc EXCEPT !["wr"] = "idle"]
  /\ body' = [body EXCEPT !["wr"] = <<>>]
  /\ posts' = [posts EXCEPT !["wr"] = 0]
  /\ wrOp' = NoOp
  /\ wrError' = FALSE
  /\ push' = "none"
  /\ UNCHANGED << store, file, gets, gaPull, gaResult, gaError, owed >>
  /\ UNCHANGED appVars
  /\ UNCHANGED uiVars

DbNext ==
  \/ \E hang \in BOOLEAN : GetAllStart(hang)
  \/ \E outcome \in {"throw", "nonok", "served"} : GetResponse(outcome)
  \/ \E p \in Procs : ImportTransaction(p)
  \/ \E p \in Procs, hang \in BOOLEAN : SyncToServerExport(p, hang)
  \/ \E p \in Procs, outcome \in {"throw", "nonok", "served"} : PostResponse(p, outcome)
  \/ GetAllResolve
  \/ \E op \in WriteOps : WriteStart(op)
  \/ WriteLocal
  \/ GetAllReturn
  \/ WriteReturn

----------------------------------------------------------------------------
(* App.tsx: handleRebenchmarkSessions, called from MatrixView.handleRebenchmarkClick *)

\* Array.prototype.findIndex(s => s.id === id), 0 standing for -1
RECURSIVE FindIndexFrom(_, _, _)
FindIndexFrom(list, id, i) ==
  IF i > Len(list) THEN 0
  ELSE IF list[i].id = id THEN i
  ELSE FindIndexFrom(list, id, i + 1)

FindIndex(list, id) == FindIndexFrom(list, id, 1)

\* benchmarkProfiles.find(p => p.id === activeProfileId)?.data || DEFAULT_BENCHMARK_PROFILES[0].data
activeBenchmarkData(profiles, activeId) ==
  LET i == FindIndex(profiles, activeId)
  IN IF i = 0 THEN DEFAULT_BENCHMARK_PROFILES[1].data ELSE profiles[i].data

\* what the collaborator may answer to rebenchmarkTerms: a JSON array of
\* { term, variance }, where a term may be unknown and a variance 'N/A'
RawAnswers ==
  { << [term |-> "Leverage", variance |-> "Green"] >>,
    << [term |-> "Leverage", variance |-> "N/A"], [term |-> "Dividends", variance |-> "Red"] >> }

\* extractedResults.find(e => e.term === term)
RECURSIVE FindTerm(_, _)
FindTerm(extracted, term) ==
  IF extracted = <<>> THEN <<>>
  ELSE IF Head(extracted).term = term THEN <<Head(extracted)>>
  ELSE FindTerm(Tail(extracted), term)

\* rebenchmarkTerms, from the collaborator's answer to the returned list
RECURSIVE rebenchmarkTerms(_, _)
rebenchmarkTerms(extractedResults, rawResults) ==
  IF rawResults = <<>> THEN <<>>
  ELSE LET r == Head(rawResults)
           originalExtraction == FindTerm(extractedResults, r.term)
           rest == rebenchmarkTerms(extractedResults, Tail(rawResults))
       IN IF originalExtraction # <<>> /\ r.variance # "N/A"
            THEN << [ term |-> r.term, extractedValue |-> originalExtraction[1].value,
                      variance |-> r.variance ] >> \o rest
            ELSE rest

\* the naive overwrite: { [activeProfileId]: newResults }
updatedBenchmarksOverwrite(benchmarkResults, profileId, newResults) ==
  BrMap([ k \in {profileId} |-> newResults ])

\* { ...session.benchmarkResults, [activeProfileId]: newResults }
updatedBenchmarks(benchmarkResults, profileId, newResults) ==
  BrMap([ k \in (DOMAIN benchmarkResults.map) \cup {profileId} |->
            IF k = profileId THEN newResults ELSE benchmarkResults.map[k] ])

\* saveSession run to its end: store.put, then syncToServer whose POST is
\* stored by the channel or fails and is swallowed
saveSession(st, f, session, outcome) ==
  LET st2 == StorePut(st, session)
  IN [ store |-> st2,
       file |-> IF outcome = "served" THEN HandlePost(f, FileArray(exportDatabase(st2))) ELSE f ]

RbIdle ==
  [ phase |-> "idle", n |-> 0, ids |-> {}, profile |-> defaultProfileId, target |-> "MARKET_BENCHMARK",
    sessions |-> <<>>, updated |-> <<>>, st |-> [i \in Ids |-> "none"] ]

RbSettled(r) == \A i \in r.ids : r.st[i] \in {"skip", "saved", "failed"}

RbFailed(r) == { i \in r.ids : r.st[i] = "failed" }

\* handleRebenchmarkClick -> handleRebenchmarkSessions(selectedSessionIds): the
\* synchronous part, up to the first await of every callback of the map
RebenchmarkStart(ids) ==
  /\ rb.phase # "pending"
  /\ RbSettled(rb)
  /\ ids # {}
  /\ rb.n < MaxBatches
  /\ LET st == [ i \in Ids |-> IF i \notin ids THEN "none"
                               ELSE IF FindIndex(sessions, i) = 0 THEN "skip" ELSE "calling" ]
         all == \A i \in ids : st[i] = "skip"
     IN rb' = [ phase |-> IF all THEN "resolved" ELSE "pending",
                n |-> rb.n + 1,
                ids |-> ids,
                profile |-> activeProfileId,
                target |-> activeBenchmarkData(benchmarkProfiles, activeProfileId),
                sessions |-> sessions,
                updated |-> sessions,
                st |-> st ]
  /\ evt' = [name |-> "rebenchmark"]
  /\ UNCHANGED << sessions, activeProfileId, benchmarkProfiles, now, store, file >>
  /\ UNCHANGED procVars
  /\ UNCHANGED uiVars

\* rebenchmarkTerms resolves for one session: the callback up to await saveSession
RebenchmarkAnswer(id, raw) ==
  /\ id \in rb.ids
  /\ rb.st[id] = "calling"
  /\ LET sessionIndex == FindIndex(rb.sessions, id)
         session == rb.sessions[sessionIndex]
         newResults == rebenchmarkTerms(session.extractionResults, raw)
         updatedSession == [ session EXCEPT
                               !.benchmarkResults = updatedBenchmarks(session.benchmarkResults,
                                                                      rb.profile, newResults),
                               !.lastModified = DateOf(now) ]
     IN rb' = [ rb EXCEPT !.updated[sessionIndex] = updatedSession, !.st[id] = "saving" ]
  /\ UNCHANGED << sessions, activeProfileId, benchmarkProfiles, now, store, file, evt >>
  /\ UNCHANGED procVars
  /\ UNCHANGED uiVars

\* rebenchmarkTerms throws for one session: the callback rejects, Promise.all
\* rejects with it, and handleRebenchmarkClick alerts
RebenchmarkThrow(id) ==
  /\ id \in rb.ids
  /\ rb.st[id] = "calling"
  /\ rb' = [ rb EXCEPT !.st[id] = "failed",
                       !.phase = IF rb.phase = "pending" THEN "rejected" ELSE @ ]
  /\ evt' = IF rb.phase = "pending"
              THEN [name |-> "alert", text |-> "Failed to re-run Benchmark Analysis."]
              ELSE evt
  /\ UNCHANGED << sessions, activeProfileId, benchmarkProfiles, now, store, file >>
  /\ UNCHANGED procVars
  /\ UNCHANGED uiVars

\* saveSession resolves for one session; when it was the last callback and
\* none rejected, Promise.all resolves and setSessions(updatedSessions) runs
RebenchmarkSaved(id, outcome) ==
  /\ id \in rb.ids
  /\ rb.st[id] = "saving"
  /\ LET r == saveSession(store, file, rb.updated[FindIndex(rb.sessions, id)], outcome)
         st == [rb.st EXCEPT ![id] = "saved"]
         last == rb.phase = "pending" /\ \A i \in rb.ids : st[i] \in {"skip", "saved"}
     IN /\ store' = r.store
        /\ file' = r.file
        /\ rb' = [ rb EXCEPT !.st = st, !.phase = IF last THEN "resolved" ELSE @ ]
        /\ sessions' = IF last THEN rb.updated ELSE sessions
  /\ UNCHANGED << activeProfileId, benchmarkProfiles, now, evt >>
  /\ UNCHANGED procVars
  /\ UNCHANGED uiVars

\* MatrixView's profile dropdown: setActiveProfileId(e.target.value)
SelectProfile(id) ==
  /\ FindIndex(benchmarkProfiles, id) # 0
  /\ id # activeProfileId
  /\ activeProfileId' = id
  /\ evt' = [name |-> "select"]
  /\ UNCHANGED << sessions, benchmarkProfiles, now, rb, store, file >>
  /\ UNCHANGED procVars
  /\ UNCHANGED uiVars

\* time passes
Tick ==
  /\ now < MaxTime
  /\ now' = now + 1
  /\ UNCHANGED << sessions, activeProfileId, benchmarkProfiles, rb, evt, store, file >>
  /\ UNCHANGED procVars
  /\ UNCHANGED uiVars

AppStores ==
  { [i \in Ids |-> Session(i, 1, IF i = 1 THEN SampleMap ELSE EmptyMap, <<>>)],
    [i \in {1} |-> LegacySession(1, 1)] }

\* the App after refreshSessions: the list is what getAllSessions read
AppInit ==
  /\ ProcInit
  /\ store \in AppStores
  /\ file = FileNone
  /\ sessions = GetAllRead(store)
  /\ activeProfileId = DEFAULT_BENCHMARK_PROFILES[1].id
  /\ benchmarkProfiles = DEFAULT_BENCHMARK_PROFILES
  /\ now = 1
  /\ rb = RbIdle
  /\ evt = [name |-> "none"]
  /\ UiIdle

AppNext ==
  \/ \E ids \in SUBSET Ids : RebenchmarkStart(ids)
  \/ \E id \in Ids, raw \in RawAnswers : RebenchmarkAnswer(id, raw)
  \/ \E id \in Ids : RebenchmarkThrow(id)
  \/ \E id \in Ids, outcome \in {"throw", "nonok", "served"} : RebenchmarkSaved(id, outcome)
  \/ \E i \in 1..Len(benchmarkProfiles) : SelectProfile(benchmarkProfiles[i].id)
  \/ Tick

AppSpec == AppInit /\ [][AppNext]_vars

----------------------------------------------------------------------------
(* BenchmarkManager: the profile handlers *)

\* Date.now().toString() at clock value t
TimeId(t) == << "t1", "t2", "t3", "t4", "t5" >>[t]

\* profiles.filter(p => p.id !== id)
RECURSIVE FilterOut(_, _)
FilterOut(profiles, id) ==
  IF profiles = <<>> THEN <<>>
  ELSE IF Head(profiles).id = id THEN FilterOut(Tail(profiles), id)
  ELSE <<Head(profiles)>> \o FilterOut(Tail(profiles), id)

\* handleCreateProfile with a non-blank name; the next click comes later
handleCreateProfile ==
  /\ now <= MaxTime
  /\ LET newProfile == [id |-> TimeId(now), data |-> "MARKET_BENCHMARK"]
     IN /\ benchmarkProfiles' = Append(benchmarkProfiles, newProfile)
        /\ activeProfileId' = newProfile.id
  /\ now' = now + 1
  /\ evt' = [name |-> "createProfile"]
  /\ UNCHANGED << sessions, rb >>
  /\ UNCHANGED dbVars
  /\ UNCHANGED uiVars

\* handleDeleteProfile that leaves the pointer on the deleted profile
handleDeleteProfileNoReassign(id, confirmed) ==
  /\ IF Len(benchmarkProfiles) <= 1
       THEN UNCHANGED << benchmarkProfiles, activeProfileId >>
     ELSE IF confirmed
       THEN /\ benchmarkProfiles' = FilterOut(benchmarkProfiles, id)
            /\ UNCHANGED activeProfileId
     ELSE UNCHANGED << benchmarkProfiles, activeProfileId >>
  /\ evt' = [name |-> "deleteProfile", id |-> id, confirmed |-> confirmed]
  /\ UNCHANGED << sessions, now, rb >>
  /\ UNCHANGED dbVars
  /\ UNCHANGED uiVars

\* handleDeleteProfile without the guard on the last profile
handleDeleteProfileUnguarded(id, confirmed) ==
  /\ IF confirmed
       THEN LET newProfiles == FilterOut(benchmarkProfiles, id)
            IN /\ benchmarkProfiles' = newProfiles
               /\ activeProfileId' = IF activeProfileId = id /\ newProfiles # <<>>
                                       THEN newProfiles[1].id
                                     ELSE activeProfileId
     ELSE UNCHANGED << benchmarkProfiles, activeProfileId >>
  /\ evt' = [name |-> "deleteProfile", id |-> id, confirmed |-> confirmed]
  /\ UNCHANGED << sessions, now, rb >>
  /\ UNCHANGED dbVars
  /\ UNCHANGED uiVars

\* handleDeleteProfile(id); confirmed is the user's answer to confirm()
handleDeleteProfile(id, confirmed) ==
  /\ IF Len(benchmarkProfiles) <= 1
       THEN UNCHANGED << benchmarkProfiles, activeProfileId >>
     ELSE IF confirmed
       THEN LET newProfiles == FilterOut(benchmarkProfiles, id)
            IN /\ benchmarkProfiles' = newProfiles
               /\ activeProfileId' = IF activeProfileId = id THEN newProfiles[1].id
                                     ELSE activeProfileId
     ELSE UNCHANGED << benchmarkProfiles, activeProfileId >>
  /\ evt' = [name |-> "deleteProfile", id |-> id, confirmed |-> confirmed]
  /\ UNCHANGED << sessions, now, rb >>
  /\ UNCHANGED dbVars
  /\ UNCHANGED uiVars

\* the profile button: setActiveProfileId(profile.id)
handleSelectProfile(id) ==
  /\ activeProfileId' = id
  /\ evt' = [name |-> "selectProfile"]
  /\ UNCHANGED << sessions, benchmarkProfiles, now, rb >>
  /\ UNCHANGED dbVars
  /\ UNCHANGED uiVars

\* updateActiveProfile(updatedData), behind handleUpdateTerm / handleAddTerm / handleDeleteTerm
updateActiveProfile(updatedData) ==
  /\ benchmarkProfiles' = [ i \in 1..Len(benchmarkProfiles) |->
                              IF benchmarkProfiles[i].id = activeProfileId
                                THEN [benchmarkProfiles[i] EXCEPT !.data = updatedData]
                                ELSE benchmarkProfiles[i] ]
  /\ evt' = [name |-> "updateProfile"]
  /\ UNCHANGED << sessions, activeProfileId, now, rb >>
  /\ UNCHANGED dbVars
  /\ UNCHANGED uiVars

\* what GET /api/settings can hold: no file, an unreadable file, the settings
\* of the version before profiles (one flat benchmark map), and current
\* settings whose pointer names a stored profile or none; "t0" is the id of
\* a profile created before the clock of this run started
NoSettings == [kind |-> "none"]

UnreadableSettings == [kind |-> "garbage"]

LegacySettings == [kind |-> "legacy", benchmarks |-> "edited"]

StoredProfiles ==
  << [id |-> "us_middle_market", data |-> "middle_market"],
     [id |-> "t0", data |-> "edited"] >>

CurrentSettings(activeId) ==
  [kind |-> "current", benchmarkProfiles |-> StoredProfiles, activeProfileId |-> activeId]

SettingsBlobs ==
  { NoSettings, UnreadableSettings, LegacySettings,
    CurrentSettings("t0"), CurrentSettings("ghost") }

\* the ids of a profile list
IdsOfProfiles(profiles) == { profiles[i].id : i \in 1..Len(profiles) }

\* SettingsStore.load(): defaults when there is nothing readable, the flat
\* map wrapped into one profile that becomes active, a dangling pointer
\* replaced by the first stored profile
getSettings(blob) ==
  CASE blob.kind \in {"none", "garbage"} ->
         [ benchmarkProfiles |-> DEFAULT_BENCHMARK_PROFILES,
           activeProfileId |-> DEFAULT_BENCHMARK_PROFILES[1].id ]
    [] blob.kind = "legacy" ->
         [ benchmarkProfiles |-> << [id |-> defaultProfileId, data |-> blob.benchmarks] >>,
           activeProfileId |-> defaultProfileId ]
    [] blob.kind = "current" ->
         [ benchmarkProfiles |-> blob.benchmarkProfiles,
           activeProfileId |->
             IF blob.activeProfileId \in IdsOfProfiles(blob.benchmarkProfiles)
               THEN blob.activeProfileId
               ELSE blob.benchmarkProfiles[1].id ]

\* refreshSessions, the settings half: the loaded profiles and pointer
\* replace the App's state (the views are not rendered while it loads)
refreshSettings(blob) ==
  /\ LET loadedSettings == getSettings(blob)
     IN /\ benchmarkProfiles' = loadedSettings.benchmarkProfiles
        /\ activeProfileId' = loadedSettings.activeProfileId
  /\ evt' = [name |-> "load", kind |-> blob.kind,
             dangling |-> (blob.kind = "current" /\
                           blob.activeProfileId \notin IdsOfProfiles(blob.benchmarkProfiles))]
  /\ UNCHANGED << sessions, now, rb >>
  /\ UNCHANGED dbVars
  /\ UNCHANGED uiVars

ProfInit ==
  /\ ProcInit
  /\ store = EmptyStore
  /\ file = FileNone
  /\ sessions = <<>>
  /\ activeProfileId = DEFAULT_BENCHMARK_PROFILES[1].id
  /\ benchmarkProfiles = DEFAULT_BENCHMARK_PROFILES
  /\ now = 1
  /\ rb = RbIdle
  /\ evt = [name |-> "none"]
  /\ UiIdle

ProfNext ==
  \/ handleCreateProfile
  \/ \E i \in 1..Len(benchmarkProfiles), confirmed \in BOOLEAN :
       handleDeleteProfile(benchmarkProfiles[i].id, confirmed)
  \/ \E i \in 1..Len(benchmarkProfiles) : handleSelectProfile(benchmarkProfiles[i].id)
  \/ \E d \in {"edited"} : updateActiveProfile(d)
  \/ \E blob \in SettingsBlobs : refreshSettings(blob)

ProfSpec == ProfInit /\ [][ProfNext]_vars

----------------------------------------------------------------------------
\* the db specification leaves the App state alone
AppIdle ==
  /\ sessions = <<>>
  /\ activeProfileId = DEFAULT_BENCHMARK_PROFILES[1].id
  /\ benchmarkProfiles = DEFAULT_BENCHMARK_PROFILES
  /\ now = 1
  /\ rb = RbIdle
  /\ evt = [name |-> "none"]
  /\ UiIdle

Init == DbInit /\ ProcInit /\ AppIdle

Next == DbNext

Spec == Init /\ [][Next]_vars

\* The steps the browser and the dev server take by themselves; the calls of
\* the UI (GetAllStart, WriteStart) are the user's to make or not.
FairSpec ==
  /\ Spec
  /\ WF_vars(\E outcome \in {"throw", "nonok", "served"} : GetResponse(outcome))
  /\ WF_vars(\E p \in Procs : ImportTransaction(p))
  /\ WF_vars(\E p \in Procs, hang \in BOOLEAN : SyncToServerExport(p, hang))
  /\ WF_vars(\E p \in Procs, outcome \in {"throw", "nonok", "served"} : PostResponse(p, outcome))
  /\ WF_vars(GetAllResolve)
  /\ WF_vars(WriteLocal)
  /\ WF_vars(GetAllReturn)
  /\ WF_vars(WriteReturn)

----------------------------------------------------------------------------
(* Analysis: App.handleMatrixFileAnalyze, AnalysisView.handleAnalyze and the
   mapping of the collaborator's answer in services/aiService.ts *)

\* a JSON null and a key that is absent, as values of r.variance
NullV == "<null>"

AbsentV == "<absent>"

\* what the collaborator may answer to extractAndBenchmark: rows of
\* { term, value, variance }
ExtractAnswers ==
  { << [term |-> "Borrower Name", value |-> "Acme", variance |-> "N/A"],
       [term |-> "Leverage", value |-> "5.0x", variance |-> "Red"] >>,
    << [term |-> "Leverage", value |-> "5.0x", variance |-> "N/A"] >>,
    << [term |-> "Leverage", value |-> "5.0x", variance |-> NullV] >>,
    << [term |-> "Leverage", value |-> "5.0x", variance |-> AbsentV] >>,
    << [term |-> "Leverage", value |-> "5.0x", variance |-> "Green"],
       [term |-> "Leverage", value |-> "6.0x", variance |-> "Red"] >> }

\* what the collaborator may answer to rebenchmarkTerms: rows of { term, variance }
RebenchmarkAnswers ==
  RawAnswers \cup
  { << [term |-> "Leverage", variance |-> NullV] >>,
    << [term |-> "Leverage", variance |-> "Yellow"], [term |-> "Leverage", variance |-> "Red"] >> }

\* the collaborator call of extractAndBenchmark resolves with rows or throws
Resolved(rows) == [kind |-> "rows", rows |-> rows]

Thrown == [kind |-> "throw", rows |-> <<>>]

ExtractOutcomes == { Resolved(rows) : rows \in ExtractAnswers } \cup { Thrown }

\* the outcomes tried on a re-analysis: the call fails, or finds the borrower
AnalyzeOutcomes ==
  { Thrown,
    Resolved(<< [term |-> "Borrower Name", value |-> "Acme", variance |-> "N/A"],
                [term |-> "Leverage", value |-> "5.0x", variance |-> "Red"] >>) }

\* extractAndBenchmark without the test on N/A and null
RECURSIVE extractAndBenchmarkKeepAll(_)
extractAndBenchmarkKeepAll(rawResults) ==
  IF rawResults = <<>> THEN [extraction |-> <<>>, benchmarking |-> <<>>]
  ELSE LET r == Head(rawResults)
           rest == extractAndBenchmarkKeepAll(Tail(rawResults))
       IN [ extraction |-> << [term |-> r.term, value |-> r.value] >> \o rest.extraction,
            benchmarking |-> << [ term |-> r.term, extractedValue |-> r.value,
                                  variance |-> r.variance ] >> \o rest.benchmarking ]

\* extractAndBenchmark, from the collaborator's answer to { extraction, benchmarking }
RECURSIVE extractAndBenchmark(_)
extractAndBenchmark(rawResults) ==
  IF rawResults = <<>> THEN [extraction |-> <<>>, benchmarking |-> <<>>]
  ELSE LET r == Head(rawResults)
           rest == extractAndBenchmark(Tail(rawResults))
       IN [ extraction |-> << [term |-> r.term, value |-> r.value] >> \o rest.extraction,
            benchmarking |->
              IF r.variance # "N/A" /\ r.variance # NullV
                THEN << [ term |-> r.term, extractedValue |-> r.value,
                          variance |-> r.variance ] >> \o rest.benchmarking
                ELSE rest.benchmarking ]

\* a session with its borrower name, as the App holds and saves it
AnSession(id, t, name, extraction, br) ==
  [ id |-> id, borrowerName |-> name, lastModified |-> DateOf(t),
    extractionResults |-> extraction, benchmarkResults |-> br, chatHistory |-> ChatList(<<>>) ]

\* the name handleMatrixFileAnalyze derives from the file name
FileBaseName == "agreement"

\* extraction.find(r => r.term === 'Borrower Name') and the test on its value
BorrowerOf(extraction) ==
  LET borrowerTerm == FindTerm(extraction, "Borrower Name")
  IN IF borrowerTerm # <<>> /\ borrowerTerm[1].value # "" /\ borrowerTerm[1].value # "Not Found"
       THEN << borrowerTerm[1].value >>
       ELSE <<>>

\* Date.now() is later than the id of every session in the store
NewSessionId == 2

\* the App state a handler works on
AppState == [sessions |-> sessions, store |-> store, file |-> file]

\* handleUpdateSession(sessionId, () => updates): the list is mapped, the
\* session gets the updates and a new lastModified, and saveSession is called
handleUpdateSession(a, sessionId, updates, outcome) ==
  LET i == FindIndex(a.sessions, sessionId)
  IN IF i = 0 THEN a
     ELSE LET s == a.sessions[i]
              merged == [ k \in DOMAIN s |-> IF k \in DOMAIN updates THEN updates[k] ELSE s[k] ]
              newSession == [ merged EXCEPT !.lastModified = DateOf(now) ]
              r == saveSession(a.store, a.file, newSession, outcome)
          IN [ sessions |-> [a.sessions EXCEPT ![i] = newSession],
               store |-> r.store, file |-> r.file ]

\* handleAnalyze up to the await: setResults([]) and setBenchmarkResults([])
AnalyzeCleared(a, id, outcome) ==
  handleUpdateSession(
    handleUpdateSession(a, id, [extractionResults |-> <<>>], outcome),
    id, [benchmarkResults |-> BrArray(<<>>)], outcome)

\* handleAnalyze after the await resolved with the collaborator's answer
AnalyzeResolved(a, id, rawResults, outcome) ==
  LET res == extractAndBenchmark(rawResults)
      a1 == handleUpdateSession(a, id, [extractionResults |-> res.extraction], outcome)
      a2 == handleUpdateSession(a1, id, [benchmarkResults |-> BrArray(res.benchmarking)], outcome)
      b == BorrowerOf(res.extraction)
  IN IF b # <<>> THEN handleUpdateSession(a2, id, [borrowerName |-> b[1]], outcome) ELSE a2

\* AnalysisView.handleAnalyze on the active session; answer is what the
\* collaborator call came to. The next click comes at a later time.
handleAnalyze(id, answer, outcome) ==
  /\ now <= MaxTime
  /\ FindIndex(sessions, id) # 0
  /\ LET cleared == AnalyzeCleared(AppState, id, outcome)
         final == IF answer.kind = "throw" THEN cleared
                  ELSE AnalyzeResolved(cleared, id, answer.rows, outcome)
     IN /\ sessions' = final.sessions
        /\ store' = final.store
        /\ file' = final.file
  /\ evt' = [name |-> "analyze", id |-> id, failed |-> (answer.kind = "throw"),
             answer |-> answer.rows]
  /\ now' = now + 1
  /\ UNCHANGED << activeProfileId, benchmarkProfiles, rb >>
  /\ UNCHANGED procVars
  /\ UNCHANGED uiVars

\* handleMatrixFileAnalyze(file) for a file dropped on the matrix
handleMatrixFileAnalyze(answer, outcome) ==
  /\ now <= MaxTime
  /\ NewSessionId \notin DOMAIN store
  /\ FindIndex(sessions, NewSessionId) = 0
  /\ IF answer.kind = "throw"
       THEN UNCHANGED << sessions, store, file >>
       ELSE LET res == extractAndBenchmark(answer.rows)
                b == BorrowerOf(res.extraction)
                newSession ==
                  AnSession(NewSessionId, now, IF b # <<>> THEN b[1] ELSE FileBaseName,
                            res.extraction,
                            BrMap([k \in {activeProfileId} |-> res.benchmarking]))
                r == saveSession(store, file, newSession, outcome)
            IN /\ sessions' = << newSession >> \o sessions
               /\ store' = r.store
               /\ file' = r.file
  /\ evt' = [name |-> "matrixAnalyze", id |-> NewSessionId, failed |-> (answer.kind = "throw"),
             answer |-> answer.rows]
  /\ now' = now + 1
  /\ UNCHANGED << activeProfileId, benchmarkProfiles, rb >>
  /\ UNCHANGED procVars
  /\ UNCHANGED uiVars

AnStores ==
  { EmptyStore,
    [i \in {1} |-> AnSession(1, 1, "Borrower One", ExtractionSample, BrMap(SampleMap))] }

AnInit ==
  /\ ProcInit
  /\ store \in AnStores
  /\ file = FileNone
  /\ sessions = GetAllRead(store)
  /\ activeProfileId = DEFAULT_BENCHMARK_PROFILES[1].id
  /\ benchmarkProfiles = DEFAULT_BENCHMARK_PROFILES
  /\ now = 1
  /\ rb = RbIdle
  /\ evt = [name |-> "none"]
  /\ UiIdle

\* The views issue one operation at a time: the analysis buttons are
\* disabled while a call is pending, and a batch is run to its end.
AnQuiet == rb.phase # "pending" /\ RbSettled(rb)

AnNext ==
  \/ \E answer \in ExtractOutcomes, outcome \in {"throw", "served"} :
       AnQuiet /\ handleMatrixFileAnalyze(answer, outcome)
  \/ \E id \in Ids, answer \in AnalyzeOutcomes, outcome \in {"throw", "served"} :
       AnQuiet /\ handleAnalyze(id, answer, outcome)
  \/ \E id \in Ids : RebenchmarkStart({id})
  \/ \E id \in Ids, raw \in RebenchmarkAnswers : RebenchmarkAnswer(id, raw)
  \/ \E id \in Ids : RebenchmarkThrow(id)
  \/ \E id \in Ids : RebenchmarkSaved(id, "served")

AnSpec == AnInit /\ [][AnNext]_vars

----------------------------------------------------------------------------
(* The pure parts of services/db.ts applied to stored and exported records *)

\* a chat message as it comes back from JSON
ChatSampleJson == << [text |-> "q", timestamp |-> IsoOf(1)] >>

\* the shapes a record written by this or an earlier version can have in the
\* object store: Dates are stored as Dates (structured clone)
StoredRecords(id) ==
  { [ id |-> id, lastModified |-> DateOf(t), extractionResults |-> ExtractionSample,
      benchmarkResults |-> br, chatHistory |-> ch ] :
      t \in Times,
      br \in { BrMissing, BrArray(ResGreen), BrMap(EmptyMap), BrMap(SampleMap) },
      ch \in { ChatMissing, ChatList(<<>>), ChatList(ChatSample) } }

\* the same shapes as they arrive in a JSON text: ISO strings for the Dates
JsonRecords(id) ==
  { [ id |-> id, lastModified |-> IsoOf(t), extractionResults |-> ExtractionSample,
      benchmarkResults |-> br, chatHistory |-> ch ] :
      t \in Times,
      br \in { BrMissing, BrArray(ResGreen), BrMap(EmptyMap), BrMap(SampleMap) },
      ch \in { ChatMissing, ChatList(<<>>), ChatList(ChatSampleJson) } }

RawRecords == StoredRecords(1) \cup JsonRecords(1)

MigStores ==
  { EmptyStore }
    \cup { [i \in {1} |-> r] : r \in StoredRecords(1) }
    \cup { [i \in Ids |-> IF i = 1 THEN r1 ELSE r2] :
             r1 \in StoredRecords(1), r2 \in StoredRecords(2) }

\* a record in the current shape: Dates, a profile-keyed map, a message list
IsCurrentShape(r) ==
  /\ r.lastModified.k = "date"
  /\ r.benchmarkResults.kind = "map"
  /\ r.chatHistory.kind = "list"
  /\ \A i \in DOMAIN r.chatHistory.msgs : r.chatHistory.msgs[i].timestamp.k = "date"

MigIdle(name) == evt.name = name

\* migrateSessionData(r) for a record read from the store or parsed from JSON
MigrateRecord(r) ==
  /\ MigIdle("none")
  /\ gaResult' = << migrateSessionData(r) >>
  /\ evt' = [name |-> "migrate", n |-> 1, input |-> r]
  /\ UNCHANGED << store, file, pc, body, posts, gets, wrOp, wrError, push, gaPull, gaError, owed >>
  /\ UNCHANGED << sessions, activeProfileId, benchmarkProfiles, now, rb >>
  /\ UNCHANGED uiVars

\* migrateSessionData applied to its own result
MigrateAgain ==
  /\ MigIdle("migrate")
  /\ evt.n = 1
  /\ gaResult' = << migrateSessionData(gaResult[1]) >>
  /\ evt' = [evt EXCEPT !.n = 2]
  /\ UNCHANGED << store, file, pc, body, posts, gets, wrOp, wrError, push, gaPull, gaError, owed >>
  /\ UNCHANGED << sessions, activeProfileId, benchmarkProfiles, now, rb >>
  /\ UNCHANGED uiVars

\* the onsuccess of getAllSessions on the store as it is
ReadAll ==
  /\ MigIdle("none")
  /\ gaResult' = GetAllRead(store)
  /\ evt' = [name |-> "getAll"]
  /\ UNCHANGED << store, file, pc, body, posts, gets, wrOp, wrError, push, gaPull, gaError, owed >>
  /\ UNCHANGED << sessions, activeProfileId, benchmarkProfiles, now, rb >>
  /\ UNCHANGED uiVars

\* exportDatabase() on the store as it is; the text is kept in body["wr"]
ExportAll ==
  /\ MigIdle("none")
  /\ body' = [body EXCEPT !["wr"] = exportDatabase(store)]
  /\ evt' = [name |-> "export", orig |-> store]
  /\ UNCHANGED << store, file, pc, posts, gets, wrOp, wrError, push, gaPull, gaResult, gaError, owed >>
  /\ UNCHANGED << sessions, activeProfileId, benchmarkProfiles, now, rb >>
  /\ UNCHANGED uiVars

\* importDatabase(text) of the exported text into a fresh, empty store
ImportIntoEmpty ==
  /\ MigIdle("export")
  /\ store' = ImportPut(EmptyStore, body["wr"])
  /\ evt' = [evt EXCEPT !.name = "importEmpty"]
  /\ UNCHANGED << file, pc, body, posts, gets, wrOp, wrError, push, gaPull, gaResult, gaError, owed >>
  /\ UNCHANGED << sessions, activeProfileId, benchmarkProfiles, now, rb >>
  /\ UNCHANGED uiVars

\* importDatabase(text) of the exported text into the store it came from
ImportIntoSame ==
  /\ MigIdle("export")
  /\ store' = ImportPut(store, body["wr"])
  /\ evt' = [evt EXCEPT !.name = "importSame"]
  /\ UNCHANGED << file, pc, body, posts, gets, wrOp, wrError, push, gaPull, gaResult, gaError, owed >>
  /\ UNCHANGED << sessions, activeProfileId, benchmarkProfiles, now, rb >>
  /\ UNCHANGED uiVars

\* importDatabase(text) of a one-record backup, legacy or current
ImportRecord(r) ==
  /\ MigIdle("none")
  /\ store' = ImportPut(store, << r >>)
  /\ evt' = [name |-> "import", input |-> r]
  /\ UNCHANGED << file, pc, body, posts, gets, wrOp, wrError, push, gaPull, gaResult, gaError, owed >>
  /\ UNCHANGED << sessions, activeProfileId, benchmarkProfiles, now, rb >>
  /\ UNCHANGED uiVars

MigInit ==
  /\ ProcInit
  /\ AppIdle
  /\ store \in MigStores
  /\ file = FileNone

MigNext ==
  \/ \E r \in RawRecords : MigrateRecord(r)
  \/ MigrateAgain
  \/ ReadAll
  \/ ExportAll
  \/ ImportIntoEmpty
  \/ ImportIntoSame
  \/ \E r \in JsonRecords(1) : ImportRecord(r)

MigSpec == MigInit /\ [][MigNext]_vars

----------------------------------------------------------------------------
(* The file channel and its clients: handleJsonFileRequest of vite.config.ts
   serving the POSTs of several clients, each with a store of its own *)

Tabs == {"a", "b"}

TabIdle(st) == [store |-> st, pc |-> "idle", body |-> <<>>]

\* the stores the clients start with: nothing, or one session the other lacks
TabStores(t) ==
  { EmptyStore,
    IF t = "a" THEN [i \in {1} |-> Session(1, 1, SampleMap, <<>>)]
               ELSE [i \in {2} |-> Session(2, 1, EmptyMap, <<>>)] }

\* the bodies a client other than the App can POST
PostTexts ==
  { FileGarbage, FileNotArray, FileArray(<<>>), FileArray(<< LegacyJson(2, 1) >>) }

\* the sessions a client saves
TabSaves == { Session(i, 1, SampleMap, ChatSample) : i \in Ids }

\* saveSession in one client, up to the end of its local transaction
TabSave(t, session) ==
  /\ tabs[t].pc = "idle"
  /\ tabs' = [tabs EXCEPT ![t].store = StorePut(@, session), ![t].pc = "export"]
  /\ UNCHANGED << activeSessionId, isLoadingDB, refresh, settingsFile, chat, saves >>
  /\ UNCHANGED << sessions, activeProfileId, benchmarkProfiles, now, rb, evt >>
  /\ UNCHANGED dbVars

\* syncToServer in one client: exportDatabase resolved, the POST is sent
TabExport(t) ==
  /\ tabs[t].pc = "export"
  /\ tabs' = [tabs EXCEPT ![t].body = exportDatabase(tabs[t].store), ![t].pc = "post"]
  /\ UNCHANGED << activeSessionId, isLoadingDB, refresh, settingsFile, chat, saves >>
  /\ UNCHANGED << sessions, activeProfileId, benchmarkProfiles, now, rb, evt >>
  /\ UNCHANGED dbVars

\* what the server did with one POST: the body, the file before it, the
\* answer, the POSTs of other clients still on their way, and whether this
\* POST was on its way when the previous one was handled
Handled(who, text, before, waiting) ==
  [ name |-> "post", who |-> who, body |-> text, before |-> before,
    ok |-> HandlePostOk(text), waiting |-> waiting,
    raced |-> (evt.name = "post" /\ who \in evt.waiting) ]

\* the 'end' handler of the server runs for the POST of client t
ChannelPost(t) ==
  /\ tabs[t].pc = "post"
  /\ file' = HandlePost(file, FileArray(tabs[t].body))
  /\ evt' = Handled(t, FileArray(tabs[t].body), file,
                    { u \in Tabs \ {t} : tabs[u].pc = "post" })
  /\ tabs' = [tabs EXCEPT ![t].pc = "idle"]
  /\ UNCHANGED << activeSessionId, isLoadingDB, refresh, settingsFile, chat, saves >>
  /\ UNCHANGED << sessions, activeProfileId, benchmarkProfiles, now, rb >>
  /\ UNCHANGED << store, pc, body, posts, gets, wrOp, wrError, push, gaPull,
                  gaResult, gaError, owed >>

\* the 'end' handler of the server runs for a POST with any body
ChannelPostText(text) ==
  /\ file' = HandlePost(file, text)
  /\ evt' = Handled("other", text, file, { u \in Tabs : tabs[u].pc = "post" })
  /\ UNCHANGED << activeSessionId, isLoadingDB, refresh, settingsFile, chat, saves, tabs >>
  /\ UNCHANGED << sessions, activeProfileId, benchmarkProfiles, now, rb >>
  /\ UNCHANGED << store, pc, body, posts, gets, wrOp, wrError, push, gaPull,
                  gaResult, gaError, owed >>

ChanInit ==
  /\ ProcInit
  /\ store = EmptyStore
  /\ file \in { FileNone, FileArray(exportDatabase([i \in {1} |-> Session(1, 1, EmptyMap, <<>>)])) }
  /\ sessions = <<>>
  /\ activeProfileId = DEFAULT_BENCHMARK_PROFILES[1].id
  /\ benchmarkProfiles = DEFAULT_BENCHMARK_PROFILES
  /\ now = 1
  /\ rb = RbIdle
  /\ evt = [name |-> "none"]
  /\ activeSessionId = NullId
  /\ isLoadingDB = FALSE
  /\ refresh = "idle"
  /\ settingsFile = [kind |-> "none"]
  /\ chat = <<>>
  /\ saves = <<>>
  /\ tabs \in { [t \in Tabs |-> TabIdle(IF t = "a" THEN sa ELSE sb)] :
                   sa \in TabStores("a"), sb \in TabStores("b") }

ChanNext ==
  \/ \E t \in Tabs, session \in TabSaves : TabSave(t, session)
  \/ \E t \in Tabs : TabExport(t)
  \/ \E t \in Tabs : ChannelPost(t)
  \/ \E text \in PostTexts : ChannelPostText(text)

ChanSpec == ChanInit /\ [][ChanNext]_vars

----------------------------------------------------------------------------
(* Settings: getSettings / saveSettings against /api/settings, and the load
   and save effects of App.tsx *)

\* constants.ts DEFAULT_TERMS and MARKET_BENCHMARK
DEFAULT_TERMS == "DEFAULT_TERMS"

MARKET_BENCHMARK == "MARKET_BENCHMARK"

\* a settings file of the service that stores { terms, benchmarks }; a field
\* is a stored value, null or absent
FlatSettings(terms, benchmarks) ==
  [kind |-> "legacy", terms |-> terms, benchmarks |-> benchmarks]

\* a settings file holding a JSON value that is falsy (0, false, "")
FalsySettings == [kind |-> "falsy"]

FlatFiles ==
  { NoSettings, UnreadableSettings, FalsySettings }
    \cup { FlatSettings(t, b) : t \in {AbsentV, NullV, "stored_terms"},
                                b \in {AbsentV, NullV, "stored_benchmarks"} }

\* handleJsonFileRequest, GET: the file text, or 'null' when there is no file
SettingsGet(f) == IF f.kind = "none" THEN [kind |-> "null"] ELSE f

\* json.field of a parsed settings object
Field(json, k) == IF k \in DOMAIN json THEN json[k] ELSE AbsentV

\* value || dflt
OrDefault(value, dflt) == IF value \in {AbsentV, NullV} THEN dflt ELSE value

\* the try block of getSettings: fetch, response.ok, response.json(), if (json)
FetchSettings(outcome, text) ==
  IF outcome = "throw" THEN [kind |-> "throw"]
  ELSE IF outcome = "nonok" THEN [kind |-> "fallthrough"]
  ELSE IF text.kind = "garbage" THEN [kind |-> "throw"]
  ELSE IF text.kind \in {"null", "falsy"} THEN [kind |-> "fallthrough"]
  ELSE [ kind |-> "return",
         value |-> [ terms |-> OrDefault(Field(text, "terms"), DEFAULT_TERMS),
                     benchmarks |-> OrDefault(Field(text, "benchmarks"), MARKET_BENCHMARK) ] ]

\* getSettings whose catch throws again
getSettingsFlatRethrow(outcome, text) ==
  LET r == FetchSettings(outcome, text)
  IN [ threw |-> (r.kind = "throw"),
       value |-> IF r.kind = "return" THEN r.value
                 ELSE [terms |-> DEFAULT_TERMS, benchmarks |-> MARKET_BENCHMARK] ]

\* getSettings that returns the parsed object as it is
getSettingsFlatNoFill(outcome, text) ==
  LET r == FetchSettings(outcome, text)
  IN [ threw |-> FALSE,
       value |-> IF r.kind = "return"
                   THEN [terms |-> Field(text, "terms"), benchmarks |-> Field(text, "benchmarks")]
                 ELSE [terms |-> DEFAULT_TERMS, benchmarks |-> MARKET_BENCHMARK] ]

\* getSettings of the service that stores { terms, benchmarks }: the catch
\* warns, and every path but the return inside the try ends at the defaults
getSettingsFlat(outcome, text) ==
  LET r == FetchSettings(outcome, text)
  IN [ threw |-> FALSE,
       value |-> IF r.kind = "return" THEN r.value
                 ELSE [terms |-> DEFAULT_TERMS, benchmarks |-> MARKET_BENCHMARK] ]

\* getSettings() is called against a channel holding f
LoadFlat(outcome, f) ==
  /\ evt' = [ name |-> "getSettings", outcome |-> outcome, file |-> f,
              result |-> getSettingsFlat(outcome, SettingsGet(f)) ]
  /\ UNCHANGED << sessions, activeProfileId, benchmarkProfiles, now, rb >>
  /\ UNCHANGED dbVars
  /\ UNCHANGED uiVars

\* JSON.stringify({ terms, benchmarkProfiles, activeProfileId, aiProvider })
SettingsOf(profiles, activeId) ==
  [kind |-> "current", benchmarkProfiles |-> profiles, activeProfileId |-> activeId]

\* saveSettings(settings): the POST is stored by the channel, or fails and
\* the catch logs it
saveSettings(f, settings, outcome) == IF outcome = "served" THEN settings ELSE f

\* where refreshSessions is, and where the settings in the App state came
\* from: the useState initial values, a finished load, or the user
Refresh(p, origin) == [pc |-> p, origin |-> origin]

\* the save effect after a render with isLoadingDB false
SaveEffect(profiles, activeId, origin, outcome) ==
  /\ settingsFile' = saveSettings(settingsFile, SettingsOf(profiles, activeId), outcome)
  /\ evt' = [ name |-> "saveSettings", settings |-> SettingsOf(profiles, activeId),
              origin |-> origin, stored |-> (outcome = "served"), before |-> settingsFile ]

\* refreshSessions is called: by the mount effect, or by the dashboard after an import
refreshSessionsStart ==
  /\ refresh.pc = "idle"
  /\ isLoadingDB' = TRUE
  /\ refresh' = [refresh EXCEPT !.pc = "sessions"]
  /\ evt' = [name |-> "refresh"]
  /\ UNCHANGED << sessions, activeProfileId, benchmarkProfiles, now, rb >>
  /\ UNCHANGED << activeSessionId, settingsFile, chat, saves, tabs >>
  /\ UNCHANGED dbVars

\* await getAllSessions() resolves: setSessions, then getSettings() is called
refreshSessionsLoaded ==
  /\ refresh.pc = "sessions"
  /\ sessions' = GetAllRead(store)
  /\ refresh' = [refresh EXCEPT !.pc = "settings"]
  /\ UNCHANGED << activeProfileId, benchmarkProfiles, now, rb, evt >>
  /\ UNCHANGED << activeSessionId, isLoadingDB, settingsFile, chat, saves, tabs >>
  /\ UNCHANGED dbVars

\* await getAllSessions() rejects (openDB or the getAll request fails): the
\* catch logs, finally sets isLoadingDB false, and the save effect runs
refreshSessionsFailed(outcome) ==
  /\ refresh.pc = "sessions"
  /\ isLoadingDB' = FALSE
  /\ refresh' = [refresh EXCEPT !.pc = "idle"]
  /\ SaveEffect(benchmarkProfiles, activeProfileId, refresh.origin, outcome)
  /\ UNCHANGED << sessions, activeProfileId, benchmarkProfiles, now, rb >>
  /\ UNCHANGED << activeSessionId, chat, saves, tabs >>
  /\ UNCHANGED dbVars

\* await getSettings() resolves: the setters run, finally sets isLoadingDB
\* false, and the save effect runs with the loaded settings
refreshSettingsLoaded(got, outcome) ==
  /\ refresh.pc = "settings"
  /\ LET loadedSettings ==
           getSettings(IF got = "served" THEN settingsFile ELSE NoSettings)
     IN /\ benchmarkProfiles' = loadedSettings.benchmarkProfiles
        /\ activeProfileId' = loadedSettings.activeProfileId
        /\ SaveEffect(loadedSettings.benchmarkProfiles, loadedSettings.activeProfileId,
                      "loaded", outcome)
  /\ isLoadingDB' = FALSE
  /\ refresh' = Refresh("idle", "loaded")
  /\ UNCHANGED << sessions, now, rb >>
  /\ UNCHANGED << activeSessionId, chat, saves, tabs >>
  /\ UNCHANGED dbVars

\* handleUpdateBenchmarks(data) from a view, and the save effect after it
handleUpdateBenchmarks(data, outcome) ==
  /\ ~isLoadingDB
  /\ LET profiles == [ i \in 1..Len(benchmarkProfiles) |->
                         IF benchmarkProfiles[i].id = activeProfileId
                           THEN [benchmarkProfiles[i] EXCEPT !.data = data]
                           ELSE benchmarkProfiles[i] ]
     IN /\ profiles # benchmarkProfiles
        /\ benchmarkProfiles' = profiles
        /\ SaveEffect(profiles, activeProfileId, "user", outcome)
  /\ refresh' = [refresh EXCEPT !.origin = "user"]
  /\ UNCHANGED << sessions, activeProfileId, now, rb >>
  /\ UNCHANGED << activeSessionId, isLoadingDB, chat, saves, tabs >>
  /\ UNCHANGED dbVars

\* the App as constructed: isLoadingDB true, the built-in settings in its
\* state, the mount effect not yet run; the channel holds whatever an
\* earlier run left
SetInit ==
  /\ ProcInit
  /\ store \in { EmptyStore, [i \in {1} |-> LegacySession(1, 1)] }
  /\ file = FileNone
  /\ sessions = <<>>
  /\ activeProfileId = DEFAULT_BENCHMARK_PROFILES[1].id
  /\ benchmarkProfiles = DEFAULT_BENCHMARK_PROFILES
  /\ now = 1
  /\ rb = RbIdle
  /\ evt = [name |-> "none"]
  /\ activeSessionId = NullId
  /\ isLoadingDB = TRUE
  /\ refresh = Refresh("idle", "builtin")
  /\ settingsFile \in SettingsBlobs
  /\ chat = <<>>
  /\ saves = <<>>
  /\ tabs = <<>>

SetNext ==
  \/ refreshSessionsStart
  \/ refreshSessionsLoaded
  \/ \E outcome \in {"throw", "served"} : refreshSessionsFailed(outcome)
  \/ \E got \in {"throw", "served"}, outcome \in {"throw", "served"} :
       refreshSettingsLoaded(got, outcome)
  \/ \E data \in {"edited", "edited_again"}, outcome \in {"throw", "served"} :
       handleUpdateBenchmarks(data, outcome)
  \/ \E outcome \in {"throw", "nonok", "served"}, f \in FlatFiles : LoadFlat(outcome, f)

SetSpec == SetInit /\ [][SetNext]_vars

----------------------------------------------------------------------------
(* Successive handleUpdateSession calls: each starts saveSession and does not
   wait for it. IndexedDB serves the open requests of one database in the
   order they were made and runs readwrite transactions on one object store
   in the order they were created. *)

\* the saves at position p that IndexedDB may serve next, taken in any order
ServedAnyOrder(q, p) == { i \in 1..Len(q) : q[i].pc = p }

\* the save at position p that IndexedDB serves next: the earliest one
Served(q, p) ==
  { i \in 1..Len(q) : q[i].pc = p /\ \A j \in 1..(i - 1) : q[j].pc # p }

\* a sequence without its i-th element
RemoveAt(q, i) == SubSeq(q, 1, i - 1) \o SubSeq(q, i + 1, Len(q))

\* what the views change through handleUpdateSession
SessionUpdates ==
  { [extractionResults |-> <<>>],
    [extractionResults |-> << [term |-> "Leverage", value |-> "5.0x"] >>],
    [chatHistory |-> ChatList(ChatSample)] }

\* { ...s, ...updates, lastModified: new Date() }
UpdatedSession(s, updates) ==
  [ [ k \in DOMAIN s |-> IF k \in DOMAIN updates THEN updates[k] ELSE s[k] ]
      EXCEPT !.lastModified = DateOf(now) ]

\* handleUpdateSession(sessionId, () => updates): the list is mapped and
\* saveSession(newSession) is called, not awaited
handleUpdateSessionCall(sessionId, updates) ==
  /\ now <= MaxTime
  /\ FindIndex(sessions, sessionId) # 0
  /\ LET i == FindIndex(sessions, sessionId)
         newSession == UpdatedSession(sessions[i], updates)
     IN /\ sessions' = [sessions EXCEPT ![i] = newSession]
        /\ saves' = Append(saves, [session |-> newSession, pc |-> "open", body |-> <<>>])
  /\ now' = now + 1
  /\ evt' = [name |-> "update", id |-> sessionId]
  /\ UNCHANGED << activeProfileId, benchmarkProfiles, rb >>
  /\ UNCHANGED << activeSessionId, isLoadingDB, refresh, settingsFile, chat, tabs >>
  /\ UNCHANGED dbVars

\* await openDB() resolves: the transaction is created and the put is placed
SaveOpened(i) ==
  /\ i \in Served(saves, "open")
  /\ saves' = [saves EXCEPT ![i].pc = "tx"]
  /\ UNCHANGED << sessions, activeProfileId, benchmarkProfiles, now, rb, evt >>
  /\ UNCHANGED << activeSessionId, isLoadingDB, refresh, settingsFile, chat, tabs >>
  /\ UNCHANGED dbVars

\* the put request succeeds: the record is in the store, syncToServer is called
SavePut(i) ==
  /\ i \in Served(saves, "tx")
  /\ store' = StorePut(store, saves[i].session)
  /\ saves' = [saves EXCEPT ![i].pc = "export"]
  /\ UNCHANGED << sessions, activeProfileId, benchmarkProfiles, now, rb, evt >>
  /\ UNCHANGED << activeSessionId, isLoadingDB, refresh, settingsFile, chat, tabs >>
  /\ UNCHANGED << file, pc, body, posts, gets, wrOp, wrError, push, gaPull,
                  gaResult, gaError, owed >>

\* syncToServer: exportDatabase resolved, the POST is sent
SaveExport(i) ==
  /\ i \in 1..Len(saves)
  /\ saves[i].pc = "export"
  /\ saves' = [saves EXCEPT ![i].pc = "post", ![i].body = exportDatabase(store)]
  /\ UNCHANGED << sessions, activeProfileId, benchmarkProfiles, now, rb, evt >>
  /\ UNCHANGED << activeSessionId, isLoadingDB, refresh, settingsFile, chat, tabs >>
  /\ UNCHANGED dbVars

\* the POST is answered or fails; saveSession settles
SavePosted(i, outcome) ==
  /\ i \in 1..Len(saves)
  /\ saves[i].pc = "post"
  /\ file' = IF outcome = "served" THEN HandlePost(file, FileArray(saves[i].body)) ELSE file
  /\ saves' = RemoveAt(saves, i)
  /\ UNCHANGED << sessions, activeProfileId, benchmarkProfiles, now, rb, evt >>
  /\ UNCHANGED << activeSessionId, isLoadingDB, refresh, settingsFile, chat, tabs >>
  /\ UNCHANGED << store, pc, body, posts, gets, wrOp, wrError, push, gaPull,
                  gaResult, gaError, owed >>

SaveInit ==
  /\ ProcInit
  /\ store = [i \in Ids |-> Session(i, 1, SampleMap, <<>>)]
  /\ file = FileNone
  /\ sessions = GetAllRead(store)
  /\ activeProfileId = DEFAULT_BENCHMARK_PROFILES[1].id
  /\ benchmarkProfiles = DEFAULT_BENCHMARK_PROFILES
  /\ now = 1
  /\ rb = RbIdle
  /\ evt = [name |-> "none"]
  /\ UiIdle

SaveNext ==
  \/ \E id \in Ids, updates \in SessionUpdates : handleUpdateSessionCall(id, updates)
  \/ \E i \in 1..Len(saves) : SaveOpened(i)
  \/ \E i \in 1..Len(saves) : SavePut(i)
  \/ \E i \in 1..Len(saves) : SaveExport(i)
  \/ \E i \in 1..Len(saves), outcome \in {"throw", "served"} : SavePosted(i, outcome)

SaveSpec == SaveInit /\ [][SaveNext]_vars

----------------------------------------------------------------------------
(* The session on screen: ChatView.handleSend / handleClearHistory, App's
   handleSessionSelect and handleDeleteSession, next to a batch rebenchmark *)

ChatIdle == [isLoading |-> FALSE, pending |-> <<>>]

\* userMsg, botMsg and errorMsg of handleSend
UserMsg == [role |-> "user", text |-> "q", timestamp |-> DateOf(now)]

BotMsg == [role |-> "model", text |-> "a", timestamp |-> DateOf(now)]

ErrorMsg == [role |-> "model", text |-> "Error", timestamp |-> DateOf(now), isError |-> TRUE]

\* onUpdateHistory(sessionId, historyFn): handleUpdateSession with the
\* function applied to the chatHistory the list holds at that moment
onUpdateHistory(a, sessionId, msg, outcome) ==
  LET i == FindIndex(a.sessions, sessionId)
  IN IF i = 0 THEN a
     ELSE handleUpdateSession(a, sessionId,
            [chatHistory |-> ChatList(Append(a.sessions[i].chatHistory.msgs, msg))], outcome)

\* a reply that goes to the session on screen when it arrives
ReplyTargetOnScreen(send) == activeSessionId

\* the session a reply is written to: activeSession.id of the render that sent
ReplyTarget(send) == send.sid

\* deleteSessionById run to its end: store.delete, then syncToServer
deleteSessionById(st, f, id, outcome) ==
  LET st2 == StoreDelete(st, id)
  IN [ store |-> st2,
       file |-> IF outcome = "served" THEN HandlePost(f, FileArray(exportDatabase(st2))) ELSE f ]

\* handleSessionSelect / onSelectSession(id); the logo sets null
handleSessionSelect(id) ==
  /\ id # activeSessionId
  /\ activeSessionId' = id
  /\ evt' = [name |-> "selectSession"]
  /\ UNCHANGED << sessions, activeProfileId, benchmarkProfiles, now, rb >>
  /\ UNCHANGED << isLoadingDB, refresh, settingsFile, chat, saves, tabs >>
  /\ UNCHANGED dbVars

\* the user leaves the chat view and comes back: a new ChatView, isLoading false
ChatRemount ==
  /\ chat.isLoading
  /\ chat' = [chat EXCEPT !.isLoading = FALSE]
  /\ evt' = [name |-> "remount"]
  /\ UNCHANGED << sessions, activeProfileId, benchmarkProfiles, now, rb >>
  /\ UNCHANGED << activeSessionId, isLoadingDB, refresh, settingsFile, saves, tabs >>
  /\ UNCHANGED dbVars

\* handleSend up to await sendChatMessage(...): the user message is appended
handleSend(outcome) ==
  /\ now <= MaxTime
  /\ FindIndex(sessions, activeSessionId) # 0
  /\ ~chat.isLoading
  /\ LET a == onUpdateHistory(AppState, activeSessionId, UserMsg, outcome)
     IN /\ sessions' = a.sessions
        /\ store' = a.store
        /\ file' = a.file
  /\ chat' = [ isLoading |-> TRUE,
               pending |-> Append(chat.pending, [sid |-> activeSessionId, q |-> UserMsg]) ]
  /\ now' = now + 1
  /\ evt' = [name |-> "send", sid |-> activeSessionId]
  /\ UNCHANGED << activeProfileId, benchmarkProfiles, rb >>
  /\ UNCHANGED << activeSessionId, isLoadingDB, refresh, settingsFile, saves, tabs >>
  /\ UNCHANGED procVars

\* sendChatMessage settles for the k-th waiting send: the answer or the
\* error message is appended, finally sets isLoading false
ChatReply(k, answered, outcome) ==
  /\ k \in 1..Len(chat.pending)
  /\ LET send == chat.pending[k]
         msg == IF answered THEN BotMsg ELSE ErrorMsg
         a == onUpdateHistory(AppState, ReplyTarget(send), msg, outcome)
     IN /\ sessions' = a.sessions
        /\ store' = a.store
        /\ file' = a.file
        /\ evt' = [name |-> "reply", sid |-> send.sid, q |-> send.q, msg |-> msg]
  /\ chat' = [isLoading |-> FALSE, pending |-> RemoveAt(chat.pending, k)]
  /\ UNCHANGED << activeProfileId, benchmarkProfiles, now, rb >>
  /\ UNCHANGED << activeSessionId, isLoadingDB, refresh, settingsFile, saves, tabs >>
  /\ UNCHANGED procVars

\* handleClearHistory; confirmed is the user's answer to confirm()
handleClearHistory(confirmed, outcome) ==
  /\ FindIndex(sessions, activeSessionId) # 0
  /\ LET a == IF confirmed
                THEN handleUpdateSession(AppState, activeSessionId,
                                         [chatHistory |-> ChatList(<<>>)], outcome)
                ELSE AppState
     IN /\ sessions' = a.sessions
        /\ store' = a.store
        /\ file' = a.file
  /\ evt' = [name |-> "clearHistory", sid |-> activeSessionId, confirmed |-> confirmed]
  /\ UNCHANGED << activeProfileId, benchmarkProfiles, now, rb >>
  /\ UNCHANGED << activeSessionId, isLoadingDB, refresh, settingsFile, chat, saves, tabs >>
  /\ UNCHANGED procVars

\* handleDeleteSession that leaves activeSessionId as it is
handleDeleteSessionKeepActive(sessionId, confirmed, outcome) ==
  /\ FindIndex(sessions, sessionId) # 0
  /\ IF confirmed
       THEN LET r == deleteSessionById(store, file, sessionId, outcome)
            IN /\ sessions' = FilterOut(sessions, sessionId)
               /\ UNCHANGED activeSessionId
               /\ store' = r.store
               /\ file' = r.file
       ELSE UNCHANGED << sessions, activeSessionId, store, file >>
  /\ evt' = [name |-> "deleteSession", id |-> sessionId, confirmed |-> confirmed]
  /\ UNCHANGED << activeProfileId, benchmarkProfiles, now, rb >>
  /\ UNCHANGED << isLoadingDB, refresh, settingsFile, chat, saves, tabs >>
  /\ UNCHANGED procVars

\* handleDeleteSession(sessionId) from the dashboard or the matrix
handleDeleteSession(sessionId, confirmed, outcome) ==
  /\ FindIndex(sessions, sessionId) # 0
  /\ IF confirmed
       THEN LET r == deleteSessionById(store, file, sessionId, outcome)
            IN /\ sessions' = FilterOut(sessions, sessionId)
               /\ activeSessionId' = IF activeSessionId = sessionId THEN NullId
                                      ELSE activeSessionId
               /\ store' = r.store
               /\ file' = r.file
       ELSE UNCHANGED << sessions, activeSessionId, store, file >>
  /\ evt' = [name |-> "deleteSession", id |-> sessionId, confirmed |-> confirmed]
  /\ UNCHANGED << activeProfileId, benchmarkProfiles, now, rb >>
  /\ UNCHANGED << isLoadingDB, refresh, settingsFile, chat, saves, tabs >>
  /\ UNCHANGED procVars

UiInit ==
  /\ ProcInit
  /\ store = [i \in Ids |-> Session(i, 1, SampleMap, IF i = 1 THEN ChatSample ELSE <<>>)]
  /\ file = FileNone
  /\ sessions = GetAllRead(store)
  /\ activeProfileId = DEFAULT_BENCHMARK_PROFILES[1].id
  /\ benchmarkProfiles = DEFAULT_BENCHMARK_PROFILES
  /\ now = 1
  /\ rb = RbIdle
  /\ evt = [name |-> "none"]
  /\ activeSessionId = NullId
  /\ isLoadingDB = FALSE
  /\ refresh = "idle"
  /\ settingsFile = [kind |-> "none"]
  /\ chat = ChatIdle
  /\ saves = <<>>
  /\ tabs = <<>>

UiNext ==
  \/ \E id \in Ids \cup {NullId} :
       (id = NullId \/ FindIndex(sessions, id) # 0) /\ handleSessionSelect(id)
  \/ ChatRemount
  \/ handleSend("served")
  \/ \E k \in 1..Len(chat.pending), answered \in BOOLEAN : ChatReply(k, answered, "served")
  \/ \E confirmed \in BOOLEAN : handleClearHistory(confirmed, "served")
  \/ \E id \in Ids, confirmed \in BOOLEAN : handleDeleteSession(id, confirmed, "served")

UiSpec == UiInit /\ [][UiNext]_vars

\* the same App with a batch rebenchmark running next to the other handlers
BatchNext ==
  \/ \E id \in Ids : RebenchmarkStart({id})
  \/ \E id \in Ids : RebenchmarkAnswer(id, << [term |-> "Leverage", variance |-> "Green"] >>)
  \/ \E id \in Ids : RebenchmarkThrow(id)
  \/ \E id \in Ids : RebenchmarkSaved(id, "served")
  \/ \E id \in Ids : handleSessionSelect(id)
  \/ handleSend("served")
  \/ \E k \in 1..Len(chat.pending) : ChatReply(k, TRUE, "served")
  \/ \E id \in Ids : handleDeleteSession(id, TRUE, "served")

BatchSpec == UiInit /\ [][BatchNext]_vars

----------------------------------------------------------------------------
(* The consumers of activeProfileId for every pointer the settings file can
   carry: App.tsx takes loadedSettings.activeProfileId as it comes *)

\* profiles.find(p => p.id === activeProfileId) || profiles[0], in
\* BenchmarkManager and in MatrixView
activeProfile(profiles, activeId) ==
  LET i == FindIndex(profiles, activeId)
  IN IF i = 0 THEN profiles[1] ELSE profiles[i]

\* the profile lists and pointers a settings file can hold
StaleProfiles ==
  { DEFAULT_BENCHMARK_PROFILES, StoredProfiles,
    << [id |-> "us_large_cap", data |-> "edited"],
       [id |-> "us_middle_market", data |-> "middle_market"] >> }

StalePointers == { "us_large_cap", "us_middle_market", "ghost" }

StaleInit ==
  /\ ProcInit
  /\ store = [i \in {1} |-> Session(1, 1, SampleMap, <<>>)]
  /\ file = FileNone
  /\ sessions = GetAllRead(store)
  /\ benchmarkProfiles \in StaleProfiles
  /\ activeProfileId \in StalePointers
  /\ now = 1
  /\ rb = RbIdle
  /\ evt = [name |-> "none"]
  /\ UiIdle

StaleNext ==
  \/ updateActiveProfile("edited")
  \/ \E i \in 1..Len(benchmarkProfiles) : handleSelectProfile(benchmarkProfiles[i].id)
  \/ \E i \in 1..Len(benchmarkProfiles) : handleDeleteProfile(benchmarkProfiles[i].id, TRUE)
  \/ RebenchmarkStart({1})
  \/ RebenchmarkAnswer(1, << [term |-> "Leverage", variance |-> "Green"] >>)
  \/ RebenchmarkThrow(1)
  \/ RebenchmarkSaved(1, "served")

StaleSpec == StaleInit /\ [][StaleNext]_vars

----------------------------------------------------------------------------
(* Claims about the session store and its file channel (Spec, FairSpec) *)

\* the last record of a blob that carries the id: the one whose put wins
RECURSIVE LastWithId(_, _)
LastWithId(recs, id) ==
  IF recs[Len(recs)].id = id THEN recs[Len(recs)]
  ELSE LastWithId(SubSeq(recs, 1, Len(recs) - 1), id)

\* C2: Merge-on-import. When the transaction of importDatabase(blob) commits
\* on a store holding L, the store holds exactly the union by id: for every
\* id of the blob the migrated blob record, whole, and for every other id of
\* L the unchanged local record; nothing else is added or removed.
C2_MergeOnImport ==
  [][ \A p \in Procs :
        (pc[p] = "import" /\ pc'[p] # "import") =>
          /\ DOMAIN store' = (DOMAIN store) \cup BlobIds(body[p])
          /\ \A id \in DOMAIN store' :
               IF id \in BlobIds(body[p])
                 THEN store'[id] = migrateSessionData(LastWithId(body[p], id))
                 ELSE store'[id] = store[id] ]_vars

\* a user import of a blob that replaced one local record and kept another
C2_Witness ==
  /\ pc["wr"] = "export"
  /\ wrOp.kind = "import"
  /\ BlobIds(body["wr"]) = {2}
  /\ DOMAIN store = {1, 2}
  /\ store[2] = migrateSessionData(LegacyJson(2, 1))
  /\ store[1].benchmarkResults.kind = "array"

\* C3: Anti-loop. A getAllSessions call issues at most one GET and no POST:
\* applying the pulled file never leads into syncToServer.
C3_AntiLoop ==
  /\ posts["ga"] = 0
  /\ gets["ga"] <= 1
  /\ pc["ga"] \notin {"export", "post", "postHung"}

\* a getAllSessions that pulled a file, applied it and returned
C3_Witness ==
  /\ pc["ga"] = "done"
  /\ gaPull = "import"
  /\ gaResult # <<>>
  /\ gets["ga"] = 1

PullFailures == {"threw", "nonok", "badjson", "notarray"}

\* list is a listing of st: every stored session once, migrated, newest first
IsListingOf(list, st) ==
  /\ Len(list) = Cardinality(DOMAIN st)
  /\ \A id \in DOMAIN st : \E i \in 1..Len(list) : list[i] = migrateSessionData(st[id])
  /\ \A i \in 1..(Len(list) - 1) : list[i].lastModified.t >= list[i + 1].lastModified.t

\* C4: Pull failures are swallowed. When the GET throws, answers non-OK or
\* returns a body that is not a JSON array (the no-file sentinel included),
\* the store is left as it was, no error is raised, and getAllSessions
\* resolves with the listing of the local store.
C4_PullFailuresSwallowed ==
  [][ /\ (pc["ga"] = "get" /\ pc'["ga"] # "get"
            /\ ( gaPull' \in PullFailures
                 \/ HandleGet(file).kind \in {"garbage", "notarray"} ))
        => (store' = store /\ pc'["ga"] = "read" /\ ~gaError')
      /\ (pc["ga"] = "read" /\ pc'["ga"] # "read" /\ gaPull \in PullFailures)
        => (pc'["ga"] = "done" /\ ~gaError' /\ store' = store
            /\ IsListingOf(gaResult', store)) ]_vars

\* getAllSessions returned two local sessions although there was no file to pull
C4_Witness ==
  /\ pc["ga"] = "done"
  /\ gaPull = "notarray"
  /\ file = FileNone
  /\ Len(gaResult) = 2
  /\ ~gaError

\* C5: A hung sync call does not block local operations: every call of
\* getAllSessions, saveSession or deleteSessionById that was started
\* eventually settles and returns, also when a request to the file channel
\* never completes.
C5_HungSyncDoesNotBlock ==
  /\ (pc["ga"] # "idle") ~> (pc["ga"] = "idle")
  /\ (pc["wr"] # "idle" /\ wrOp.kind \in {"save", "delete"}) ~> (pc["wr"] = "idle")

\* the session with this id as the App holds it in a list, or none
InList(list, id) == { list[i] : i \in { j \in 1..Len(list) : list[j].id = id } }

\* C6: The local store is authoritative. Once a save or delete whose push
\* failed has completed, every later getAllSessions reflects it: a deleted
\* session is absent from the result and a saved session is returned as saved.
C6_LocalAuthoritative ==
  pc["ga"] = "done" =>
    \A id \in Ids :
      /\ owed[id].kind = "deleted" => InList(gaResult, id) = {}
      /\ owed[id].kind = "saved" => InList(gaResult, id) = {migrateSessionData(owed[id].session)}

\* the local write that the operation in progress made is in the store
WriteApplied ==
  \/ wrOp.kind = "save" /\ wrOp.session.id \in DOMAIN store /\ store[wrOp.session.id] = wrOp.session
  \/ wrOp.kind = "delete" /\ wrOp.id \notin DOMAIN store
  \/ wrOp.kind = "import" /\ \A id \in BlobIds(wrOp.text.recs) :
         id \in DOMAIN store /\ store[id] = migrateSessionData(LastWithId(wrOp.text.recs, id))

\* C7: Push failures are never surfaced. When the POST of a save, a delete
\* or a user import fails, the operation still resolves without an error,
\* the failure changes nothing in the store, and the local write stays applied.
C7_PushFailuresSwallowed ==
  [][ (pc["wr"] = "post" /\ pc'["wr"] # "post" /\ push' # "stored") =>
        /\ pc'["wr"] = "done"
        /\ ~wrError'
        /\ store' = store
        /\ WriteApplied' ]_vars

\* a delete that resolved although its POST failed, with the session gone locally
C7_Witness ==
  /\ pc["wr"] = "done"
  /\ push = "failed"
  /\ wrOp.kind = "delete"
  /\ wrOp.id \notin DOMAIN store
  /\ file.kind = "array" /\ wrOp.id \in BlobIds(file.recs)
  /\ ~wrError

\* text is the JSON export of the whole store st
IsExportOf(text, st) ==
  /\ text.kind = "array"
  /\ Len(text.recs) = Cardinality(DOMAIN st)
  /\ \A id \in DOMAIN st : \E i \in 1..Len(text.recs) :
       text.recs[i] = ToJson(migrateSessionData(st[id]))

\* C8: Push after write. A save, a delete or a user import that completed
\* without a failed POST has committed its change to the store and left the
\* channel file equal to the export of the entire store.
C8_PushAfterWrite ==
  (pc["wr"] = "done" /\ push # "failed") =>
    /\ WriteApplied
    /\ push = "stored"
    /\ posts["wr"] = 1
    /\ IsExportOf(file, store)

\* a save completed and the file mirrors a store of two sessions
C8_Witness ==
  /\ pc["wr"] = "done"
  /\ push = "stored"
  /\ wrOp.kind = "save"
  /\ Cardinality(DOMAIN store) = 2
  /\ IsExportOf(file, store)

----------------------------------------------------------------------------
(* Claims about the batch rebenchmark (AppSpec) *)

AllProfileIds ==
  { DEFAULT_BENCHMARK_PROFILES[i].id : i \in 1..Len(DEFAULT_BENCHMARK_PROFILES) }

\* benchmarkResults[q] of a session: the list in a one-element sequence, or none
BrAt(session, q) ==
  IF q \in DOMAIN session.benchmarkResults.map
    THEN << session.benchmarkResults.map[q] >> ELSE <<>>

\* C1: Profile isolation. A rebenchmark that targets profile P leaves, for
\* every session and every profile Q other than P, benchmarkResults[Q] as it
\* was when the operation began - in the session list it sets and in every
\* record it saves.
C1_ProfileIsolation ==
  [][ /\ (rb.phase = "pending" /\ rb'.phase = "resolved") =>
           /\ Len(sessions') = Len(rb.sessions)
           /\ \A i \in 1..Len(sessions') : \A q \in AllProfileIds \ {rb.profile} :
                /\ sessions'[i].id = rb.sessions[i].id
                /\ BrAt(sessions'[i], q) = BrAt(rb.sessions[i], q)
      /\ \A id \in DOMAIN store' :
           (id \notin DOMAIN store \/ store'[id] # store[id]) =>
             \A q \in AllProfileIds \ {rb.profile} : \A old \in InList(rb.sessions, id) :
               BrAt(store'[id], q) = BrAt(old, q) ]_vars

\* a second batch, against another profile, completed and a session now
\* carries results under both profiles, in the list and in the store
C1_Witness ==
  /\ rb.phase = "resolved"
  /\ rb.n = 2
  /\ \E i \in 1..Len(sessions) : \E q \in AllProfileIds \ {rb.profile} :
       /\ sessions[i].id \in rb.ids
       /\ rb.st[sessions[i].id] = "saved"
       /\ BrAt(sessions[i], rb.profile) # <<>>
       /\ BrAt(sessions[i], q) = << ResGreen >>
       /\ store[sessions[i].id] = sessions[i]

\* C9: Failure isolation in batch rebenchmark. Once a batch in which some
\* rebenchmark call failed has run to its end, every other session of the
\* batch carries the new results for the target profile in the session list
\* and in the store, and the failing session is unchanged in both.
C9_FailureIsolation ==
  (rb.phase # "pending" /\ RbSettled(rb) /\ RbFailed(rb) # {}) =>
    /\ \A id \in rb.ids :
         /\ rb.st[id] = "saved" =>
              /\ InList(sessions, id) = InList(rb.updated, id)
              /\ store[id] \in InList(rb.updated, id)
         /\ rb.st[id] = "failed" =>
              /\ InList(sessions, id) = InList(rb.sessions, id)
              /\ InList(GetAllRead(store), id) = InList(rb.sessions, id)

----------------------------------------------------------------------------
(* Claims about the benchmark profiles (ProfSpec) *)

ProfileIds(profiles) == { profiles[i].id : i \in 1..Len(profiles) }

BadUserImport(op) == op.kind = "import" /\ op.text.kind # "array"

\* C18: Import format errors. importDatabase given text that is not valid
\* JSON, or JSON that is not an array, fails, writes nothing to the local
\* store and issues no push; started by the user the error reaches the
\* caller, started by a pull it is swallowed and getAllSessions goes on.
C18_ImportFormatErrors ==
  /\ [](BadUserImport(wrOp) =>
          pc["wr"] = "failed" /\ wrError /\ posts["wr"] = 0 /\ push = "none")
  /\ [](gaPull \in {"badjson", "notarray"} =>
          pc["ga"] \in {"read", "done"} /\ ~gaError /\ posts["ga"] = 0)
  /\ [][ (BadUserImport(wrOp') \/ gaPull' \in {"badjson", "notarray"}) =>
            store' = store /\ file' = file ]_vars

\* the user picked a JSON file that is not an array while the store holds
\* sessions: the import rejected
C18_Witness ==
  /\ wrOp = ImportOp(FileNotArray)
  /\ pc["wr"] = "failed"
  /\ wrError
  /\ DOMAIN store = Ids

\* C19: getAllSessions resolves with every session of the local store
\* exactly once, each migrated, ordered by lastModified descending; on an
\* empty store it resolves with the empty list, without error.
C19_GetAllSessions ==
  /\ Settled("ga") => (pc["ga"] = "done" /\ ~gaError)
  /\ pc["ga"] = "done" =>
        /\ \A id \in DOMAIN store :
              /\ Cardinality({ i \in 1..Len(gaResult) : gaResult[i].id = id }) = 1
              /\ \A i \in 1..Len(gaResult) :
                    gaResult[i].id = id => gaResult[i] = migrateSessionData(store[id])
        /\ \A i \in 1..Len(gaResult) : gaResult[i].id \in DOMAIN store
        /\ \A i, j \in 1..Len(gaResult) :
              i + 1 = j => gaResult[i].lastModified.t >= gaResult[j].lastModified.t
        /\ DOMAIN store = {} => gaResult = <<>>

\* two sessions were read and the one with the larger key, modified later,
\* comes first
C19_Witness ==
  /\ pc["ga"] = "done"
  /\ Len(gaResult) = 2
  /\ gaResult[1].id = 2
  /\ gaResult[1].lastModified.t > gaResult[2].lastModified.t

----------------------------------------------------------------------------
(* Claims about migration, export and import (MigSpec) *)

\* C12: Idempotent migration. For every record, legacy or current, with or
\* without chatHistory and benchmarkResults, stored or parsed from JSON,
\* migrating the migrated record gives the migrated record again; and a
\* record already in the current shape is returned with the same field values.
C12_IdempotentMigration ==
  [][ /\ (evt'.name = "migrate" /\ evt'.n = 2) => gaResult' = gaResult
      /\ (evt'.name = "migrate" /\ evt'.n = 1 /\ IsCurrentShape(evt'.input)) =>
            gaResult'[1] = evt'.input ]_vars

\* a legacy record from JSON (flat list, no chatHistory, ISO date) was
\* migrated twice and the second pass changed nothing
C12_Witness ==
  /\ evt.name = "migrate"
  /\ evt.n = 2
  /\ evt.input.benchmarkResults.kind = "array"
  /\ evt.input.chatHistory.kind = "missing"
  /\ evt.input.lastModified.k = "iso"
  /\ gaResult[1].benchmarkResults = BrMap([k \in {defaultProfileId} |-> ResGreen])

\* the upgrade the schema asks for, stated on one record and its outcome
IsUpgradeOf(out, raw) ==
  /\ out.id = raw.id
  /\ raw.benchmarkResults.kind = "array" =>
        /\ out.benchmarkResults.kind = "map"
        /\ DOMAIN out.benchmarkResults.map = {defaultProfileId}
        /\ out.benchmarkResults.map[defaultProfileId] = raw.benchmarkResults.arr
  /\ raw.benchmarkResults.kind = "missing" =>
        /\ out.benchmarkResults.kind = "map"
        /\ DOMAIN out.benchmarkResults.map = {}
  /\ raw.benchmarkResults.kind = "map" => out.benchmarkResults = raw.benchmarkResults
  /\ out.chatHistory.kind = "list"
  /\ raw.chatHistory.kind = "missing" => out.chatHistory.msgs = <<>>

\* C13: Legacy upgrade. On getAllSessions, exportDatabase and importDatabase
\* a flat benchmarkResults list X becomes the one-key map {defaultProfileId: X}
\* with X unchanged, a missing benchmarkResults becomes the empty map, a
\* missing chatHistory the empty list, and a map is left as it is.
C13_LegacyUpgrade ==
  /\ evt.name = "getAll" =>
        \A i \in DOMAIN store :
          \E j \in 1..Len(gaResult) : IsUpgradeOf(gaResult[j], store[i])
  /\ evt.name = "export" =>
        \A i \in DOMAIN store :
          \E j \in 1..Len(body["wr"]) : IsUpgradeOf(body["wr"][j], store[i])
  /\ evt.name = "import" => IsUpgradeOf(store[evt.input.id], evt.input)

\* a store with a flat-list record was read and the list sits under the
\* default profile id
C13_Witness ==
  /\ evt.name = "getAll"
  /\ 1 \in DOMAIN store
  /\ store[1].benchmarkResults = BrArray(ResGreen)
  /\ store[1].chatHistory = ChatMissing
  /\ \E j \in 1..Len(gaResult) :
        /\ gaResult[j].id = 1
        /\ gaResult[j].benchmarkResults = BrMap([k \in {defaultProfileId} |-> ResGreen])
        /\ gaResult[j].chatHistory = ChatList(<<>>)

\* C17: Round-trip export/import. For any store content, importing the
\* exported text into an empty store gives a store with exactly the same
\* session ids and, read back through the migration, the same field values;
\* importing it into the store it came from leaves what the store reads as
\* unchanged.
C17_RoundTrip ==
  (evt.name \in {"importEmpty", "importSame"}) =>
    /\ DOMAIN store = DOMAIN evt.orig
    /\ GetAllRead(store) = GetAllRead(evt.orig)
    /\ exportDatabase(store) = exportDatabase(evt.orig)

\* a store with a flat-list record and a record with a conversation went
\* through export and import into an empty store
C17_Witness ==
  /\ evt.name = "importEmpty"
  /\ DOMAIN evt.orig = Ids
  /\ evt.orig[1].benchmarkResults = BrArray(ResGreen)
  /\ evt.orig[2].chatHistory = ChatList(ChatSample)
  /\ evt.orig[2].lastModified = DateOf(MaxTime)
  /\ store[1].benchmarkResults = BrMap([k \in {defaultProfileId} |-> ResGreen])
  /\ store[2].chatHistory = ChatList(ChatSample)
  /\ store[2].lastModified = DateOf(MaxTime)

----------------------------------------------------------------------------
(* Claims about analysis and the stored benchmark results (AnSpec) *)

\* the sessions held by the App and by the store
HeldSessions ==
  { sessions[i] : i \in 1..Len(sessions) } \cup { store[i] : i \in DOMAIN store }

\* every benchmark result list of a session: one per profile id, or the flat list
ResultLists(s) ==
  { s.benchmarkResults.map[k] : k \in DOMAIN s.benchmarkResults.map }
    \cup { s.benchmarkResults.arr }

HasTerm(list, term) == \E i \in 1..Len(list) : list[i].term = term

\* C14: No N/A storage. No stored benchmark result has variance "N/A"; a
\* term the collaborator reported as "N/A" has no entry in the results that
\* extractAndBenchmark or rebenchmarkTerms produced, hence none under the
\* profile id of the stored session, while its extraction result is stored.
C14_NoNAStorage ==
  /\ [](\A s \in HeldSessions : \A list \in ResultLists(s) :
          \A i \in 1..Len(list) : list[i].variance # "N/A")
  /\ []((evt.name = "matrixAnalyze" /\ ~evt.failed) =>
          \A j \in 1..Len(evt.answer) :
            evt.answer[j].variance = "N/A" =>
              /\ HasTerm(store[evt.id].extractionResults, evt.answer[j].term)
              /\ ~HasTerm(store[evt.id].benchmarkResults.map[activeProfileId],
                          evt.answer[j].term))
  /\ [][ \A id \in Ids, raw \in RebenchmarkAnswers :
            RebenchmarkAnswer(id, raw) =>
              \A j \in 1..Len(raw) :
                raw[j].variance = "N/A" =>
                  ~HasTerm(rb'.updated[FindIndex(rb.sessions, id)].benchmarkResults.map[rb.profile],
                           raw[j].term) ]_vars

\* a dropped file whose only term came back "N/A" was saved with the
\* extraction result and an empty result list under the active profile
C14_Witness ==
  /\ evt.name = "matrixAnalyze"
  /\ ~evt.failed
  /\ evt.answer = << [term |-> "Leverage", value |-> "5.0x", variance |-> "N/A"] >>
  /\ store[NewSessionId].extractionResults = << [term |-> "Leverage", value |-> "5.0x"] >>
  /\ store[NewSessionId].benchmarkResults = BrMap([k \in {activeProfileId} |-> <<>>])

\* C15: Closed variance enum. Every stored benchmark result has variance
\* Green, Yellow or Red: a collaborator row whose variance is absent, null or
\* any other value is left out, on the analysis and on the rebenchmark path.
C15_ClosedVarianceEnum ==
  \A s \in HeldSessions : \A list \in ResultLists(s) :
    \A i \in 1..Len(list) : list[i].variance \in {"Green", "Yellow", "Red"}

\* the three fields an analysis writes
AnalysisFields(s) ==
  [ extractionResults |-> s.extractionResults, benchmarkResults |-> s.benchmarkResults,
    borrowerName |-> s.borrowerName ]

\* C16: Failure leaves prior state. When the collaborator call of an
\* analysis or re-analysis fails, the session's extractionResults,
\* benchmarkResults and borrowerName are, in the App state and in the store,
\* what they were before the analysis started; a failed first analysis of a
\* dropped file persists no session.
C16_FailureLeavesPriorState ==
  [][ /\ (now' # now /\ evt'.name = "analyze" /\ evt'.failed) =>
            /\ AnalysisFields(sessions'[FindIndex(sessions', evt'.id)])
                  = AnalysisFields(sessions[FindIndex(sessions, evt'.id)])
            /\ AnalysisFields(store'[evt'.id]) = AnalysisFields(store[evt'.id])
      /\ (now' # now /\ evt'.name = "matrixAnalyze" /\ evt'.failed) =>
            /\ sessions' = sessions
            /\ store' = store ]_vars

\* C20: A term appears at most once in each profile's benchmark result
\* list, whatever rows the collaborator returned.
C20_TermOncePerProfile ==
  \A s \in HeldSessions : \A list \in ResultLists(s) :
    \A i, j \in 1..Len(list) : list[i].term = list[j].term => i = j

----------------------------------------------------------------------------
(* Claims about the file channel and its clients (ChanSpec) *)

\* C21: File channel write validation. A POST whose body is not valid JSON is
\* answered with an error and leaves the file as it was; a POST with valid
\* JSON replaces the file content with exactly that body and answers success.
C21_WriteValidation ==
  evt.name = "post" =>
    IF evt.body.kind = "garbage"
      THEN ~evt.ok /\ file = evt.before
      ELSE evt.ok /\ file = evt.body

\* a non-JSON body was refused while the file held a session
C21_Witness ==
  /\ evt.name = "post"
  /\ evt.body = FileGarbage
  /\ ~evt.ok
  /\ file.kind = "array"
  /\ file.recs # << >>

\* C23: Last writer wins. When the POSTs of two clients were on their way
\* together, the file after both is exactly the body of the one handled
\* last: a session only the earlier body held is not in the file.
C23_LastWriterWins ==
  (evt.name = "post" /\ evt.raced) =>
    /\ file = evt.body
    /\ \A id \in BlobIds(evt.before.recs) \ BlobIds(evt.body.recs) :
          id \notin BlobIds(file.recs)

\* client a's POST with session 1 was handled first, client b's without it last
C23_Witness ==
  /\ evt.name = "post"
  /\ evt.raced
  /\ evt.who = "b"
  /\ BlobIds(evt.before.recs) = {1}
  /\ BlobIds(file.recs) = {2}
  /\ 1 \in DOMAIN tabs["a"].store

----------------------------------------------------------------------------
(* Claims about the settings (SetSpec) *)

BuiltInSettings == [terms |-> DEFAULT_TERMS, benchmarks |-> MARKET_BENCHMARK]

\* C22: Settings load never fails. getSettings never raises; it returns the
\* built-in defaults when the channel is unreachable, answers non-OK, has no
\* file or an unreadable body, and it fills each missing field of a stored
\* settings object with its default, keeping the fields that are stored.
C22_SettingsLoadNeverFails ==
  evt.name = "getSettings" =>
    /\ ~evt.result.threw
    /\ (evt.outcome # "served" \/ evt.file.kind \in {"none", "garbage"}) =>
          evt.result.value = BuiltInSettings
    /\ (evt.outcome = "served" /\ evt.file.kind = "legacy") =>
          \A k \in {"terms", "benchmarks"} :
            evt.result.value[k] =
              IF evt.file[k] \in {AbsentV, NullV} THEN BuiltInSettings[k] ELSE evt.file[k]

\* a stored object with its terms and without benchmarks was loaded
C22_Witness ==
  /\ evt.name = "getSettings"
  /\ evt.outcome = "served"
  /\ evt.file = FlatSettings("stored_terms", AbsentV)
  /\ evt.result.value = [terms |-> "stored_terms", benchmarks |-> MARKET_BENCHMARK]

\* C30: Built-in defaults never overwrite persisted settings by themselves.
\* No save is issued while the load runs, and every saveSettings call carries
\* settings that a finished load returned or the user changed: never the
\* initial values of the App state after a load that was aborted.
C30_DefaultsNeverOverwrite ==
  /\ evt.name = "saveSettings" => evt.origin \in {"loaded", "user"}
  /\ (isLoadingDB /\ refresh.origin = "builtin") => settingsFile \in SettingsBlobs

----------------------------------------------------------------------------
(* Claims about successive updates of a session (SaveSpec) *)

\* the saves of session id that have not reached the store
PendingPuts(id) ==
  { i \in 1..Len(saves) : saves[i].session.id = id /\ saves[i].pc \in {"open", "tx"} }

----------------------------------------------------------------------------
(* Claims about the session on screen (UiSpec) and about a batch running
   next to other handlers (BatchSpec) *)

IsPrefix(a, b) == Len(a) <= Len(b) /\ SubSeq(b, 1, Len(a)) = a

\* C25: chatHistory is an append-only log. Every operation leaves the
\* previous chatHistory of a session, in the list and in the store, as a
\* prefix of the new one.
C25_ChatAppendOnly ==
  [][ /\ \A i \in 1..Len(sessions), j \in 1..Len(sessions') :
           sessions[i].id = sessions'[j].id =>
             IsPrefix(sessions[i].chatHistory.msgs, sessions'[j].chatHistory.msgs)
      /\ \A id \in (DOMAIN store) \cap (DOMAIN store') :
           IsPrefix(store[id].chatHistory.msgs, store'[id].chatHistory.msgs) ]_vars

\* C27: Delete clears the active pointer. A confirmed handleDeleteSession(id)
\* removes id from the session list and from the store and leaves every
\* other session as it was; activeSessionId becomes null when it was id and
\* stays as it was otherwise.
C27_DeleteClearsActive ==
  [][ (evt'.name = "deleteSession" /\ evt'.confirmed /\ Len(sessions') < Len(sessions)) =>
        /\ FindIndex(sessions', evt'.id) = 0
        /\ evt'.id \notin DOMAIN store'
        /\ sessions' = FilterOut(sessions, evt'.id)
        /\ DOMAIN store' = (DOMAIN store) \ {evt'.id}
        /\ \A id \in DOMAIN store' : store'[id] = store[id]
        /\ activeSessionId' = IF activeSessionId = evt'.id THEN NullId ELSE activeSessionId ]_vars

\* the session on screen was deleted; the other one is still listed and stored
C27_Witness ==
  /\ evt.name = "deleteSession" /\ evt.confirmed /\ evt.id = 1
  /\ activeSessionId = NullId
  /\ Len(sessions) = 1 /\ sessions[1].id = 2
  /\ DOMAIN store = {2}
  /\ Len(chat.pending) = 1 /\ chat.pending[1].sid = 1

\* the fields of a session a rebenchmark has no business with
OutsideBatch(s, profile) ==
  [ rest |-> [ k \in (DOMAIN s) \ {"benchmarkResults", "lastModified"} |-> s[k] ],
    others |-> [ q \in (DOMAIN s.benchmarkResults.map) \ {profile} |-> s.benchmarkResults.map[q] ] ]

\* C28: A batch rebenchmark changes only benchmarkResults[targetProfile] and
\* lastModified of its sessions. Its writes lose or undo nothing other
\* operations did while it was in flight: every other field and session is
\* as it was just before the write, and a session deleted meanwhile is put
\* back neither in the store nor in the list.
C28_BatchChangesOnlyItsOwn ==
  [][ \A id \in Ids :
        (rb.st[id] = "saving" /\ rb'.st[id] = "saved") =>
          /\ DOMAIN store' = DOMAIN store
          /\ \A k \in DOMAIN store :
                IF k = id THEN OutsideBatch(store'[k], rb.profile) = OutsideBatch(store[k], rb.profile)
                ELSE store'[k] = store[k]
          /\ Len(sessions') = Len(sessions)
          /\ \A i \in 1..Len(sessions) :
                /\ sessions'[i].id = sessions[i].id
                /\ IF sessions[i].id \in rb.ids
                     THEN OutsideBatch(sessions'[i], rb.profile) = OutsideBatch(sessions[i], rb.profile)
                     ELSE sessions'[i] = sessions[i] ]_vars

\* the model messages of a log
RECURSIVE CountModel(_)
CountModel(msgs) ==
  IF msgs = <<>> THEN 0
  ELSE (IF "role" \in DOMAIN Head(msgs) /\ Head(msgs).role = "model" THEN 1 ELSE 0)
         + CountModel(Tail(msgs))

\* C29: Chat replies are routed to the session the question was asked in.
\* When sendChatMessage settles, exactly one model message is appended at the
\* end of the chatHistory of the session that was on screen at the send,
\* whatever is on screen now, and saved; no other session changes; a session
\* deleted meanwhile is not created again; no other step adds a model message.
C29_ReplyRouting ==
  [][ IF Len(chat'.pending) < Len(chat.pending)
        THEN LET sid == evt'.sid
                 i == FindIndex(sessions, sid)
             IN /\ \E k \in 1..Len(chat.pending) :
                     chat.pending[k].sid = sid /\ chat'.pending = RemoveAt(chat.pending, k)
                /\ evt'.msg.role = "model"
                /\ IF i = 0
                     THEN sessions' = sessions /\ store' = store
                     ELSE /\ Len(sessions') = Len(sessions)
                          /\ sessions'[i].id = sid
                          /\ sessions'[i].chatHistory.msgs =
                               Append(sessions[i].chatHistory.msgs, evt'.msg)
                          /\ \A j \in 1..Len(sessions) : j # i => sessions'[j] = sessions[j]
                          /\ DOMAIN store' = DOMAIN store
                          /\ store'[sid] = sessions'[i]
                          /\ \A id \in DOMAIN store : id # sid => store'[id] = store[id]
        ELSE \A i \in 1..Len(sessions), j \in 1..Len(sessions') :
               sessions[i].id = sessions'[j].id =>
                 CountModel(sessions'[j].chatHistory.msgs) <= CountModel(sessions[i].chatHistory.msgs) ]_vars

\* the question was asked in session 1, session 2 is on screen, and the
\* reply is the last message of session 1, after the question
C29_Witness ==
  /\ evt.name = "reply" /\ evt.sid = 1
  /\ activeSessionId = 2
  /\ FindIndex(sessions, 1) # 0
  /\ LET msgs == sessions[FindIndex(sessions, 1)].chatHistory.msgs
     IN /\ Len(msgs) >= 2
        /\ msgs[Len(msgs)] = evt.msg
        /\ msgs[Len(msgs) - 1] = evt.q
  /\ sessions[FindIndex(sessions, 2)].chatHistory.msgs = <<>>

----------------------------------------------------------------------------
(* Claims about a pointer that names no profile (StaleSpec) *)

StalePointer == FindIndex(benchmarkProfiles, activeProfileId) = 0

\* C26: Stale active profile fallback. While activeProfileId names no profile
\* of the list, every consumer works on the first profile of the list: the
\* profile the manager and the matrix show, the benchmark data a rebenchmark
\* sends, and the profile an edit in the manager lands in; no edit is dropped.
C26_StaleFallback ==
  [][ StalePointer =>
        /\ activeProfile(benchmarkProfiles, activeProfileId) = benchmarkProfiles[1]
        /\ rb'.n > rb.n => rb'.target = benchmarkProfiles[1].data
        /\ (evt'.name = "updateProfile" /\ rb' = rb) =>
             benchmarkProfiles'[1].data = "edited" ]_vars

====
